---- MODULE Spec2Model ----
(***************************************************************************)
(* MMMUT admission help desk: the query pipeline of AdmissionChatbot       *)
(* (src/src/chatbot.py) and the session bookkeeping of ChatbotIntegration  *)
(* and FlaskWebIntegration (src/src/integration.py).                       *)
(*                                                                         *)
(* Text is a sequence of one-character strings, so that str.strip,         *)
(* str.lower, re.sub and the `in` substring test are computed as Python    *)
(* computes them.  Time is counted in minutes.  Confidence is counted in   *)
(* hundredths (0.9 is 90).                                                 *)
(***************************************************************************)
EXTENDS Integers, Sequences, FiniteSets, TLC

(***************************************************************************)
(* Characters and the str / re primitives used by the source.              *)
(***************************************************************************)

\* the class \s of the re module, restricted to the characters of the inputs
WhiteSpace == {" ", "\t", "\n"}

\* the class \w of the re module, after str.lower
WordChars ==
  {"a","b","c","d","e","f","g","h","i","j","k","l","m","n","o","p","q","r",
   "s","t","u","v","w","x","y","z","0","1","2","3","4","5","6","7","8","9","_"}

\* str.lower on one character
LowerChar(c) ==
  CASE c = "A" -> "a" [] c = "B" -> "b" [] c = "C" -> "c" [] c = "D" -> "d"
    [] c = "E" -> "e" [] c = "F" -> "f" [] c = "G" -> "g" [] c = "H" -> "h"
    [] c = "I" -> "i" [] c = "J" -> "j" [] c = "K" -> "k" [] c = "L" -> "l"
    [] c = "M" -> "m" [] c = "N" -> "n" [] c = "O" -> "o" [] c = "P" -> "p"
    [] c = "Q" -> "q" [] c = "R" -> "r" [] c = "S" -> "s" [] c = "T" -> "t"
    [] c = "U" -> "u" [] c = "V" -> "v" [] c = "W" -> "w" [] c = "X" -> "x"
    [] c = "Y" -> "y" [] c = "Z" -> "z" [] OTHER -> c

\* str.lower
Lower(s) == [i \in 1..Len(s) |-> LowerChar(s[i])]

\* the first index >= i of s that holds no whitespace (Len(s)+1 if none)
RECURSIVE SkipWs(_, _)
SkipWs(s, i) ==
  IF i <= Len(s) /\ s[i] \in WhiteSpace THEN SkipWs(s, i + 1) ELSE i

\* the last index <= i of s that holds no whitespace (0 if none)
RECURSIVE SkipWsBack(_, _)
SkipWsBack(s, i) ==
  IF i >= 1 /\ s[i] \in WhiteSpace THEN SkipWsBack(s, i - 1) ELSE i

\* str.strip
Strip(s) == SubSeq(s, SkipWs(s, 1), SkipWsBack(s, Len(s)))

\* the least element of a non-empty set of integers
Min(S) == CHOOSE m \in S : \A n \in S : m <= n

\* re.sub(r'\s+', ' ', s), from index i on: each leftmost run of whitespace
\* becomes one space, the rest is copied
RECURSIVE CollapseFrom(_, _)
CollapseFrom(s, i) ==
  LET M == {j \in i..Len(s) : s[j] \in WhiteSpace}
  IN  IF M = {} THEN SubSeq(s, i, Len(s))
      ELSE SubSeq(s, i, Min(M) - 1) \o <<" ">>
             \o CollapseFrom(s, SkipWs(s, Min(M)))

\* re.sub(r'[^\w\s\-\.]', ' ', s)
StripPunct(s) ==
  [i \in 1..Len(s) |->
     IF s[i] \in WordChars \cup WhiteSpace \cup {"-", "."} THEN s[i] ELSE " "]

\* the pattern p occurs in s at index i
OccursAt(p, s, i) ==
  /\ i >= 1
  /\ i + Len(p) - 1 <= Len(s)
  /\ SubSeq(s, i, i + Len(p) - 1) = p

\* Python's `p in s` on strings
Contains(p, s) == \E i \in 1..(Len(s) + 1) : OccursAt(p, s, i)

\* the assertion \b of the re module between s[i-1] and s[i]
WordBoundary(s, i) ==
  LET before == i - 1 >= 1 /\ i - 1 <= Len(s) /\ s[i - 1] \in WordChars
      after  == i >= 1 /\ i <= Len(s) /\ s[i] \in WordChars
  IN  before # after

\* r'\b' + re.escape(abbr) + r'\b' matches s at index i
AbbrAt(abbr, s, i) ==
  /\ OccursAt(abbr, s, i)
  /\ WordBoundary(s, i)
  /\ WordBoundary(s, i + Len(abbr))

\* re.sub(r'\b' + re.escape(abbr) + r'\b', full_form, s), from index i on:
\* the leftmost match is replaced, and the scan goes on after it
RECURSIVE SubAbbrFrom(_, _, _, _)
SubAbbrFrom(abbr, full_form, s, i) ==
  LET M == {j \in i..Len(s) : AbbrAt(abbr, s, j)}
  IN  IF M = {} THEN SubSeq(s, i, Len(s))
      ELSE SubSeq(s, i, Min(M) - 1) \o full_form
             \o SubAbbrFrom(abbr, full_form, s, Min(M) + Len(abbr))

\* the index after a match of  w1\s+w2\s+...wn\s+  begun at i, 0 if none
\* (\s+ is greedy, and what follows it is never whitespace)
RECURSIVE PatternEnd(_, _, _)
PatternEnd(words, s, i) ==
  IF words = <<>> THEN i
  ELSE LET w == Head(words)
           j == i + Len(w)
       IN  IF OccursAt(w, s, i) /\ j <= Len(s) /\ s[j] \in WhiteSpace
           THEN PatternEnd(Tail(words), s, SkipWs(s, j))
           ELSE 0

\* r'\bw1\s+...wn\s+' matches s at index i
PatternAt(words, s, i) == WordBoundary(s, i) /\ PatternEnd(words, s, i) > 0

\* re.sub(r'\bw1\s+...wn\s+', replacement, s), from index i on
RECURSIVE SubPatternFrom(_, _, _, _)
SubPatternFrom(words, replacement, s, i) ==
  LET M == {j \in i..Len(s) : PatternAt(words, s, j)}
  IN  IF M = {} THEN SubSeq(s, i, Len(s))
      ELSE SubSeq(s, i, Min(M) - 1) \o replacement
             \o SubPatternFrom(words, replacement, s,
                               PatternEnd(words, s, Min(M)))

(***************************************************************************)
(* AdmissionChatbot._preprocess_query                                      *)
(***************************************************************************)

\* the dict `abbreviations`, in its insertion order
abbreviations ==
  << <<<<"c","s","e">>,
       <<"c","o","m","p","u","t","e","r"," ","s","c","i","e","n","c","e"," ","e","n","g","i","n","e","e","r","i","n","g">>>>,
     <<<<"e","c","e">>,
       <<"e","l","e","c","t","r","o","n","i","c","s"," ","a","n","d"," ","c","o","m","m","u","n","i","c","a","t","i","o","n"," ","e","n","g","i","n","e","e","r","i","n","g">>>>,
     <<<<"e","e","e">>,
       <<"e","l","e","c","t","r","i","c","a","l"," ","a","n","d"," ","e","l","e","c","t","r","o","n","i","c","s"," ","e","n","g","i","n","e","e","r","i","n","g">>>>,
     <<<<"e","e">>,
       <<"e","l","e","c","t","r","i","c","a","l"," ","e","n","g","i","n","e","e","r","i","n","g">>>>,
     <<<<"m","e">>,
       <<"m","e","c","h","a","n","i","c","a","l"," ","e","n","g","i","n","e","e","r","i","n","g">>>>,
     <<<<"c","e">>,
       <<"c","i","v","i","l"," ","e","n","g","i","n","e","e","r","i","n","g">>>>,
     <<<<"i","t">>,
       <<"i","n","f","o","r","m","a","t","i","o","n"," ","t","e","c","h","n","o","l","o","g","y">>>>,
     <<<<"b","t","e","c","h">>,
       <<"b","a","c","h","e","l","o","r"," ","o","f"," ","t","e","c","h","n","o","l","o","g","y">>>>,
     <<<<"b",".","t","e","c","h">>,
       <<"b","a","c","h","e","l","o","r"," ","o","f"," ","t","e","c","h","n","o","l","o","g","y">>>>,
     <<<<"m","t","e","c","h">>,
       <<"m","a","s","t","e","r"," ","o","f"," ","t","e","c","h","n","o","l","o","g","y">>>>,
     <<<<"m",".","t","e","c","h">>,
       <<"m","a","s","t","e","r"," ","o","f"," ","t","e","c","h","n","o","l","o","g","y">>>>,
     <<<<"p","h","d">>,
       <<"d","o","c","t","o","r"," ","o","f"," ","p","h","i","l","o","s","o","p","h","y">>>>,
     <<<<"p","h",".","d">>,
       <<"d","o","c","t","o","r"," ","o","f"," ","p","h","i","l","o","s","o","p","h","y">>>>,
     <<<<"m","m","m","u","t">>,
       <<"m","a","d","a","n"," ","m","o","h","a","n"," ","m","a","l","a","v","i","y","a"," ","u","n","i","v","e","r","s","i","t","y"," ","o","f"," ","t","e","c","h","n","o","l","o","g","y">>>>,
     <<<<"g","o","r","a","k","h","p","u","r">>,
       <<"g","o","r","a","k","h","p","u","r"," ","u","t","t","a","r"," ","p","r","a","d","e","s","h">>>>,
     <<<<"u","p">>,
       <<"u","t","t","a","r"," ","p","r","a","d","e","s","h">>>> >>

\* the dict `question_patterns`: the words of each pattern (each followed by \s+,
\* the first preceded by \b) and the replacement
question_patterns ==
  << << <<<<"w","h","a","t">>, <<"i","s">>, <<"t","h","e">>>>,
        <<"t","e","l","l"," ","m","e"," ","a","b","o","u","t"," ","t","h","e"," ">> >>,
     << <<<<"h","o","w">>, <<"m","u","c","h">>>>,
        <<"w","h","a","t"," ","i","s"," ","t","h","e"," ","c","o","s","t"," ","o","f"," ">> >>,
     << <<<<"w","h","e","n">>, <<"i","s">>>>,
        <<"w","h","a","t"," ","a","r","e"," ","t","h","e"," ","d","a","t","e","s"," ","f","o","r"," ">> >>,
     << <<<<"w","h","e","r","e">>, <<"i","s">>>>,
        <<"w","h","a","t"," ","i","s"," ","t","h","e"," ","l","o","c","a","t","i","o","n"," ","o","f"," ">> >>,
     << <<<<"c","a","n">>, <<"i">>>>,
        <<"a","m"," ","i"," ","e","l","i","g","i","b","l","e"," ","f","o","r"," ">> >>,
     << <<<<"d","o">>, <<"y","o","u">>, <<"h","a","v","e">>>>,
        <<"d","o","e","s"," ","m","m","m","u","t"," ","o","f","f","e","r"," ">> >> >>

\* the loop `for abbr, full_form in abbreviations.items()`, entries k..16
RECURSIVE ApplyAbbreviations(_, _)
ApplyAbbreviations(s, k) ==
  IF k > Len(abbreviations) THEN s
  ELSE ApplyAbbreviations(
         SubAbbrFrom(abbreviations[k][1], abbreviations[k][2], s, 1), k + 1)

\* the loop `for pattern, replacement in question_patterns.items()`
RECURSIVE ApplyQuestionPatterns(_, _)
ApplyQuestionPatterns(s, k) ==
  IF k > Len(question_patterns) THEN s
  ELSE ApplyQuestionPatterns(
         SubPatternFrom(question_patterns[k][1], question_patterns[k][2], s, 1),
         k + 1)

_preprocess_query(query) ==
  LET stripped == Strip(query)
  IN  IF stripped = <<>> THEN stripped
      ELSE ApplyQuestionPatterns(
             ApplyAbbreviations(
               StripPunct(CollapseFrom(Lower(stripped), 1)), 1), 1)

(***************************************************************************)
(* The queries of the model.  _preprocess_query is worked out once for     *)
(* each of them.                                                           *)
(***************************************************************************)

\* "Hello"
QHello ==
  <<"H","e","l","l","o">>

\* "  " (whitespace only)
QBlank ==
  <<" "," ">>

\* "What is the fee structure for B.Tech?"
QFees ==
  <<"W","h","a","t"," ","i","s"," ","t","h","e"," ","f","e","e"," ","s","t","r","u","c","t","u","r","e"," ","f","o","r"," ","B",".","T","e","c","h","?">>

\* "hi, fees?": a greeting phrase and category keywords in one query
QHiFees ==
  <<"h","i",","," ","f","e","e","s","?">>

Queries == {QHello, QBlank, QFees, QHiFees}

\* what process_query is handed: a query, or a query /api/chat has stripped
PipelineInputs == Queries \cup {Strip(q) : q \in Queries}

Preprocessed == [query \in PipelineInputs |-> _preprocess_query(query)]

NormalizedInputs == {Preprocessed[query] : query \in PipelineInputs}

(***************************************************************************)
(* Python values that a response text can be: a str (its characters), a    *)
(* list of str (a quick-response entry may be a list of templates), None.  *)
(***************************************************************************)

PyStr(t) == [type |-> "str", text |-> t, items |-> <<>>]
PyList(ts) == [type |-> "list", text |-> <<>>, items |-> ts]
PyNone == [type |-> "None", text |-> <<>>, items |-> <<>>]

\* the truth value Python gives to `if v:`
Truthy(v) ==
  CASE v.type = "str" -> v.text # <<>>
    [] v.type = "list" -> v.items # <<>>
    [] OTHER -> FALSE

\* the dict {}
EmptyDict == [k \in {} |-> PyNone]

\* dict.get(key, default)
Get(d, key, default) == IF key \in DOMAIN d THEN d[key] ELSE default

(***************************************************************************)
(* The knowledge documents AdmissionChatbot._load_data can end up with.    *)
(* A category's data is a sequence of facts; the empty sequence stands for *)
(* an empty dict or list.                                                  *)
(***************************************************************************)

\* DataOrganizer._generate_faqs (the answers are opaque)
GeneratedFaqs ==
  << [question |->
        <<"W","h","a","t"," ","i","s"," ","t","h","e"," ","e","l","i","g","i","b","i","l","i","t","y"," ","c","r","i","t","e","r","i","a"," ","f","o","r"," ","B",".","T","e","c","h"," ","a","d","m","i","s","s","i","o","n","?">>,
      answer |-> "10+2 with PCM, minimum 75% marks, and JEE Main.", category |-> "eligibility"],
     [question |->
        <<"W","h","a","t"," ","i","s"," ","t","h","e"," ","f","e","e"," ","s","t","r","u","c","t","u","r","e"," ","f","o","r"," ","B",".","T","e","c","h","?">>,
      answer |-> "The annual fee is approximately 1,00,000.", category |-> "fees"],
     [question |->
        <<"W","h","e","n"," ","d","o"," ","a","p","p","l","i","c","a","t","i","o","n","s"," ","s","t","a","r","t","?">>,
      answer |-> "Applications typically start in March and end in April.", category |-> "important_dates"],
     [question |->
        <<"W","h","a","t"," ","c","o","u","r","s","e","s"," ","a","r","e"," ","o","f","f","e","r","e","d","?">>,
      answer |-> "B.Tech in CSE, IT, ECE, EE, ME, CE, Chemical Engineering, and Biotechnology.", category |-> "courses"],
     [question |->
        <<"I","s"," ","h","o","s","t","e","l"," ","f","a","c","i","l","i","t","y"," ","a","v","a","i","l","a","b","l","e","?">>,
      answer |-> "Yes, separate hostels are available for boys and girls.", category |-> "facilities"],
     [question |->
        <<"W","h","a","t"," ","i","s"," ","t","h","e"," ","p","l","a","c","e","m","e","n","t"," ","r","e","c","o","r","d","?">>,
      answer |-> "85%+ placement rate and average package of 6.5 LPA.", category |-> "placement"],
     [question |->
        <<"H","o","w"," ","t","o"," ","c","o","n","t","a","c","t"," ","a","d","m","i","s","s","i","o","n"," ","o","f","f","i","c","e","?">>,
      answer |-> "+91-551-2273958 or admission@mmmut.ac.in", category |-> "contact"] >>

\* DataOrganizer._create_quick_responses (the texts are cut short)
GeneratedQuickResponses ==
  [greeting |->
     \* ["Hello! Welcome to MMMUT Admission Help Desk.", "Hi there!", "Welcome!"]
     PyList(<<<<"H","e","l","l","o","!"," ","W","e","l","c","o","m","e"," ","t","o"," ","M","M","M","U","T"," ","A","d","m","i","s","s","i","o","n"," ","H","e","l","p"," ","D","e","s","k",".">>,
              <<"H","i"," ","t","h","e","r","e","!">>,
              <<"W","e","l","c","o","m","e","!">>>>),
   courses |-> PyStr(<<"M","M","M","U","T"," ","o","f","f","e","r","s"," ","B",".","T","e","c","h"," ","p","r","o","g","r","a","m","s",".">>),
   eligibility |-> PyStr(<<"Y","o","u"," ","n","e","e","d"," ","1","0","+","2"," ","w","i","t","h"," ","P","C","M",".">>),
   fees |-> PyStr(<<"T","h","e"," ","a","n","n","u","a","l"," ","f","e","e"," ","i","s"," ","1",",","0","0",",","0","0","0",".">>),
   dates |-> PyStr(<<"A","p","p","l","i","c","a","t","i","o","n","s"," ","o","p","e","n"," ","i","n"," ","M","a","r","c","h",".">>),
   contact |-> PyStr(<<"P","h","o","n","e",":"," ","+","9","1","-","5","5","1","-","2","2","7","3","9","5","8">>),
   facilities |-> PyStr(<<"M","M","M","U","T"," ","h","a","s"," ","l","i","b","r","a","r","y",","," ","l","a","b","s",","," ","h","o","s","t","e","l","s",".">>),
   placement |-> PyStr(<<"8","5","%","+"," ","p","l","a","c","e","m","e","n","t"," ","r","a","t","e",".">>),
   location |-> PyStr(<<"M","M","M","U","T"," ","i","s"," ","l","o","c","a","t","e","d"," ","i","n"," ","G","o","r","a","k","h","p","u","r",".">>),
   \* "I'm sorry, I don't have specific information about that."
   fallback |-> PyStr(<<"I","'","m"," ","s","o","r","r","y",","," ","I"," ","d","o","n","'","t"," ","h","a","v","e"," ","s","p","e","c","i","f","i","c"," ","i","n","f","o","r","m","a","t","i","o","n"," ","a","b","o","u","t"," ","t","h","a","t",".">>)]

\* organized_data.json as DataOrganizer.organize_data writes it
OrganizedDocument ==
  [categories |->
     [university |-> <<"full_name", "short_name", "location">>,
      courses |-> <<"undergraduate">>,
      admission_process |-> <<"steps">>,
      eligibility |-> <<"btech">>,
      fees |-> <<"btech">>,
      important_dates |-> <<"application_start">>,
      facilities |-> <<"academic">>,
      placement |-> <<"statistics">>,
      contact |-> <<"admission_office">>],
   quick_responses |-> GeneratedQuickResponses,
   faq |-> GeneratedFaqs]

\* AdmissionChatbot._create_basic_organized_data, here of a structured_data.json
\* that holds university_info, courses and fees and nothing else
_create_basic_organized_data ==
  [categories |->
     [university |-> <<"name">>,
      courses |-> <<"undergraduate">>,
      eligibility |-> <<>>,
      fees |-> <<"tuition">>,
      important_dates |-> <<>>,
      facilities |-> <<>>,
      placement |-> <<>>,
      contact |-> <<>>],
   quick_responses |->
     [\* "Hello! Welcome to MMMUT Admission Help Desk."
      greeting |-> PyStr(<<"H","e","l","l","o","!"," ","W","e","l","c","o","m","e"," ","t","o"," ","M","M","M","U","T"," ","A","d","m","i","s","s","i","o","n"," ","H","e","l","p"," ","D","e","s","k",".">>),
      \* "I'm sorry, I don't have specific information about that."
      fallback |-> PyStr(<<"I","'","m"," ","s","o","r","r","y",","," ","I"," ","d","o","n","'","t"," ","h","a","v","e"," ","s","p","e","c","i","f","i","c"," ","i","n","f","o","r","m","a","t","i","o","n"," ","a","b","o","u","t"," ","t","h","a","t",".">>)],
   faq |-> <<>>]

\* AdmissionChatbot._create_fallback_data
_create_fallback_data ==
  [categories |-> [university |-> <<"name", "location">>],
   quick_responses |->
     [\* "Hello! Welcome to MMMUT Admission Help Desk."
      greeting |-> PyStr(<<"H","e","l","l","o","!"," ","W","e","l","c","o","m","e"," ","t","o"," ","M","M","M","U","T"," ","A","d","m","i","s","s","i","o","n"," ","H","e","l","p"," ","D","e","s","k",".">>),
      \* "I'm sorry, I'm experiencing some technical difficulties."
      fallback |-> PyStr(<<"I","'","m"," ","s","o","r","r","y",","," ","I","'","m"," ","e","x","p","e","r","i","e","n","c","i","n","g"," ","s","o","m","e"," ","t","e","c","h","n","i","c","a","l"," ","d","i","f","f","i","c","u","l","t","i","e","s",".">>)],
   faq |-> <<>>]

\* an organized_data.json that is the empty object: no categories, no FAQ and
\* no quick-response table (the defaults of dict.get apply)
EmptyDocument ==
  [categories |-> EmptyDict, quick_responses |-> EmptyDict, faq |-> <<>>]

\* the documents _load_data is run on
Documents ==
  {OrganizedDocument, _create_basic_organized_data, _create_fallback_data,
   EmptyDocument}

(***************************************************************************)
(* The state of one ChatbotIntegration and of the AdmissionChatbot it owns.*)
(***************************************************************************)

VARIABLES
  now,                   \* the wall clock (datetime.now, time.time), in minutes
  organized_data,        \* AdmissionChatbot.organized_data
  quick_responses,       \* AdmissionChatbot.quick_responses
  faqs,                  \* AdmissionChatbot.faqs
  conversation_history,  \* AdmissionChatbot.conversation_history
  session_start_time,    \* AdmissionChatbot.session_start_time
  query_count,           \* AdmissionChatbot.query_count
  active_sessions,       \* ChatbotIntegration.active_sessions
  request_count,         \* ChatbotIntegration.request_count
  returned,              \* the last call that returned: its arguments, its result, the stages it ran
  log,                   \* every turn appended since construction or reset, with its user_id
  handlers,              \* the request handlers in flight: locals and position of each
  sweeper                \* the cleanup thread: locals and position

vars ==
  <<now, organized_data, quick_responses, faqs, conversation_history,
    session_start_time, query_count, active_sessions, request_count,
    returned, log, handlers, sweeper>>

(***************************************************************************)
(* AdmissionChatbot._check_quick_responses                                 *)
(***************************************************************************)

\* the list `greeting_patterns`
greeting_patterns ==
  << <<"h","e","l","l","o">>,
     <<"h","i">>,
     <<"h","e","y">>,
     <<"g","o","o","d"," ","m","o","r","n","i","n","g">>,
     <<"g","o","o","d"," ","a","f","t","e","r","n","o","o","n">>,
     <<"g","o","o","d"," ","e","v","e","n","i","n","g">>,
     <<"n","a","m","a","s","t","e">>,
     <<"g","r","e","e","t","i","n","g","s">>,
     <<"s","t","a","r","t">>,
     <<"b","e","g","i","n">>,
     <<"h","e","l","p"," ","m","e">> >>

\* the dict `category_patterns`, in its insertion order
category_patterns ==
  << [category |-> "courses", patterns |->
        << <<"c","o","u","r","s","e">>,
           <<"p","r","o","g","r","a","m">>,
           <<"b","r","a","n","c","h">>,
           <<"s","t","r","e","a","m">>,
           <<"w","h","a","t"," ","c","o","u","r","s","e","s">>,
           <<"e","n","g","i","n","e","e","r","i","n","g">>,
           <<"b","t","e","c","h">>,
           <<"b",".","t","e","c","h">>,
           <<"d","e","g","r","e","e">>,
           <<"s","p","e","c","i","a","l","i","z","a","t","i","o","n">>,
           <<"d","e","p","a","r","t","m","e","n","t">> >>],
     [category |-> "eligibility", patterns |->
        << <<"e","l","i","g","i","b","i","l","i","t","y">>,
           <<"c","r","i","t","e","r","i","a">>,
           <<"q","u","a","l","i","f","i","c","a","t","i","o","n">>,
           <<"r","e","q","u","i","r","e","m","e","n","t">>,
           <<"m","a","r","k","s">>,
           <<"p","e","r","c","e","n","t","a","g","e">>,
           <<"c","u","t","o","f","f">>,
           <<"c","u","t"," ","o","f","f">>,
           <<"m","i","n","i","m","u","m"," ","m","a","r","k","s">>,
           <<"q","u","a","l","i","f","y">> >>],
     [category |-> "fees", patterns |->
        << <<"f","e","e">>,
           <<"c","o","s","t">>,
           <<"p","a","y","m","e","n","t">>,
           <<"h","o","w"," ","m","u","c","h">>,
           <<"p","r","i","c","e">>,
           <<"t","u","i","t","i","o","n">>,
           <<"s","c","h","o","l","a","r","s","h","i","p">>,
           <<"f","i","n","a","n","c","i","a","l"," ","a","i","d">>,
           <<"i","n","s","t","a","l","l","m","e","n","t">>,
           <<"m","o","n","e","y">> >>],
     [category |-> "dates", patterns |->
        << <<"d","a","t","e">>,
           <<"d","e","a","d","l","i","n","e">>,
           <<"w","h","e","n">>,
           <<"s","c","h","e","d","u","l","e">>,
           <<"t","i","m","e","l","i","n","e">>,
           <<"l","a","s","t"," ","d","a","t","e">>,
           <<"a","p","p","l","i","c","a","t","i","o","n"," ","d","a","t","e">>,
           <<"a","d","m","i","s","s","i","o","n"," ","d","a","t","e">>,
           <<"i","m","p","o","r","t","a","n","t"," ","d","a","t","e","s">> >>],
     [category |-> "contact", patterns |->
        << <<"c","o","n","t","a","c","t">>,
           <<"p","h","o","n","e">>,
           <<"e","m","a","i","l">>,
           <<"a","d","d","r","e","s","s">>,
           <<"r","e","a","c","h">>,
           <<"o","f","f","i","c","e">>,
           <<"h","e","l","p","l","i","n","e">>,
           <<"s","u","p","p","o","r","t">>,
           <<"c","a","l","l">>,
           <<"w","r","i","t","e">> >>],
     [category |-> "facilities", patterns |->
        << <<"f","a","c","i","l","i","t","y">>,
           <<"h","o","s","t","e","l">>,
           <<"l","i","b","r","a","r","y">>,
           <<"l","a","b">>,
           <<"i","n","f","r","a","s","t","r","u","c","t","u","r","e">>,
           <<"c","a","m","p","u","s">>,
           <<"a","c","c","o","m","m","o","d","a","t","i","o","n">>,
           <<"m","e","s","s">>,
           <<"w","i","f","i">>,
           <<"s","p","o","r","t","s">> >>],
     [category |-> "placement", patterns |->
        << <<"p","l","a","c","e","m","e","n","t">>,
           <<"j","o","b">>,
           <<"c","a","r","e","e","r">>,
           <<"s","a","l","a","r","y">>,
           <<"p","a","c","k","a","g","e">>,
           <<"c","o","m","p","a","n","y">>,
           <<"r","e","c","r","u","i","t","m","e","n","t">>,
           <<"i","n","t","e","r","n","s","h","i","p">>,
           <<"e","m","p","l","o","y","m","e","n","t">> >>],
     [category |-> "location", patterns |->
        << <<"w","h","e","r","e">>,
           <<"l","o","c","a","t","i","o","n">>,
           <<"a","d","d","r","e","s","s">>,
           <<"s","i","t","u","a","t","e","d">>,
           <<"g","o","r","a","k","h","p","u","r">>,
           <<"h","o","w"," ","t","o"," ","r","e","a","c","h">>,
           <<"d","i","r","e","c","t","i","o","n","s">> >>] >>

\* sum(1 for pattern in patterns if pattern in query)
Score(patterns, query) ==
  Cardinality({k \in 1..Len(patterns) : Contains(patterns[k], query)})

\* a scoring loop in which a later category replaces the best on an equal score
RECURSIVE BestMatchFromLastWins(_, _, _)
BestMatchFromLastWins(query, k, best) ==
  IF k > Len(category_patterns) THEN best
  ELSE LET score == Score(category_patterns[k].patterns, query)
       IN  BestMatchFromLastWins(query, k + 1,
             IF score >= best.best_score
             THEN [best_match |-> category_patterns[k].category,
                   best_score |-> score]
             ELSE best)

\* the scoring loop from category k on: best_match ("" is None) and best_score
RECURSIVE BestMatchFrom(_, _, _)
BestMatchFrom(query, k, best) ==
  IF k > Len(category_patterns) THEN best
  ELSE LET score == Score(category_patterns[k].patterns, query)
       IN  BestMatchFrom(query, k + 1,
             IF score > best.best_score
             THEN [best_match |-> category_patterns[k].category,
                   best_score |-> score]
             ELSE best)

BestMatch(query) ==
  BestMatchFrom(query, 1, [best_match |-> "", best_score |-> 0])

\* the default of quick_responses.get("greeting", ...):
\* "Hello! I'm here to assist you with all your admission-related queries."
DefaultGreeting ==
  PyStr(<<"H","e","l","l","o","!"," ","I","'","m"," ","h","e","r","e"," ","t","o"," ","a","s","s","i","s","t"," ","y","o","u"," ","w","i","t","h"," ","a","l","l"," ","y","o","u","r"," ","a","d","m","i","s","s","i","o","n","-","r","e","l","a","t","e","d"," ","q","u","e","r","i","e","s",".">>)

\* a greeting test that asks for the whole text to be a greeting phrase
IsGreetingWholeText(query) ==
  \E k \in 1..Len(greeting_patterns) : greeting_patterns[k] = query

\* any(pattern in query for pattern in greeting_patterns)
IsGreeting(query) ==
  \E k \in 1..Len(greeting_patterns) : Contains(greeting_patterns[k], query)

\* the greeting test and the scoring loop, worked out once for each
\* normalized input of the model
Matched ==
  [query \in NormalizedInputs |->
     [greeting |-> IsGreeting(query), best |-> BestMatch(query)]]

\* a matcher that answers with the location template when the best-scoring
\* category has none
QuickResponseNextTemplate(matched) ==
  IF matched.greeting
  THEN Get(quick_responses, "greeting", DefaultGreeting)
  ELSE IF matched.best.best_match # "" /\ matched.best.best_score > 0
       THEN IF Truthy(Get(quick_responses, matched.best.best_match, PyNone))
            THEN Get(quick_responses, matched.best.best_match, PyNone)
            ELSE Get(quick_responses, "location", PyNone)
       ELSE PyNone

\* a matcher that scores the categories first and tests for a greeting last
QuickResponseCategoryFirst(matched) ==
  IF matched.best.best_match # "" /\ matched.best.best_score > 0
     /\ Truthy(Get(quick_responses, matched.best.best_match, PyNone))
  THEN Get(quick_responses, matched.best.best_match, PyNone)
  ELSE IF matched.greeting
       THEN Get(quick_responses, "greeting", DefaultGreeting)
       ELSE PyNone

\* the template _check_quick_responses returns once the patterns are matched
QuickResponseFor(matched) ==
  IF matched.greeting
  THEN Get(quick_responses, "greeting", DefaultGreeting)
  ELSE IF matched.best.best_match # "" /\ matched.best.best_score > 0
          /\ Truthy(Get(quick_responses, matched.best.best_match, PyNone))
       THEN Get(quick_responses, matched.best.best_match, PyNone)
       ELSE PyNone

_check_quick_responses(query) == QuickResponseFor(Matched[query])

(***************************************************************************)
(* AdmissionChatbot._create_context_for_query and what it calls            *)
(***************************************************************************)

\* the dict `category_keywords`, in its insertion order
category_keywords ==
  << [category |-> "courses", keywords |->
        << <<"c","o","u","r","s","e">>,
           <<"p","r","o","g","r","a","m">>,
           <<"b","r","a","n","c","h">>,
           <<"e","n","g","i","n","e","e","r","i","n","g">>,
           <<"b","t","e","c","h">>,
           <<"c","o","m","p","u","t","e","r"," ","s","c","i","e","n","c","e">>,
           <<"m","e","c","h","a","n","i","c","a","l">> >>],
     [category |-> "eligibility", keywords |->
        << <<"e","l","i","g","i","b","i","l","i","t","y">>,
           <<"c","r","i","t","e","r","i","a">>,
           <<"q","u","a","l","i","f","i","c","a","t","i","o","n">>,
           <<"m","a","r","k","s">>,
           <<"p","e","r","c","e","n","t","a","g","e">>,
           <<"r","e","q","u","i","r","e","m","e","n","t">> >>],
     [category |-> "fees", keywords |->
        << <<"f","e","e">>,
           <<"c","o","s","t">>,
           <<"p","a","y","m","e","n","t">>,
           <<"m","o","n","e","y">>,
           <<"s","c","h","o","l","a","r","s","h","i","p">>,
           <<"f","i","n","a","n","c","i","a","l">> >>],
     [category |-> "important_dates", keywords |->
        << <<"d","a","t","e">>,
           <<"d","e","a","d","l","i","n","e">>,
           <<"w","h","e","n">>,
           <<"s","c","h","e","d","u","l","e">>,
           <<"t","i","m","e","l","i","n","e">>,
           <<"l","a","s","t"," ","d","a","t","e">> >>],
     [category |-> "facilities", keywords |->
        << <<"f","a","c","i","l","i","t","y">>,
           <<"h","o","s","t","e","l">>,
           <<"l","i","b","r","a","r","y">>,
           <<"l","a","b">>,
           <<"i","n","f","r","a","s","t","r","u","c","t","u","r","e">>,
           <<"c","a","m","p","u","s">> >>],
     [category |-> "placement", keywords |->
        << <<"p","l","a","c","e","m","e","n","t">>,
           <<"j","o","b">>,
           <<"c","a","r","e","e","r">>,
           <<"s","a","l","a","r","y">>,
           <<"p","a","c","k","a","g","e">>,
           <<"c","o","m","p","a","n","y">> >>],
     [category |-> "contact", keywords |->
        << <<"c","o","n","t","a","c","t">>,
           <<"p","h","o","n","e">>,
           <<"e","m","a","i","l">>,
           <<"a","d","d","r","e","s","s">>,
           <<"o","f","f","i","c","e">>,
           <<"r","e","a","c","h">> >>] >>

\* the categories of category_keywords, from entry k on, that have a keyword
\* in the query
RECURSIVE MatchedCategoriesFrom(_, _)
MatchedCategoriesFrom(query, k) ==
  IF k > Len(category_keywords) THEN <<>>
  ELSE (IF \E j \in 1..Len(category_keywords[k].keywords) :
              Contains(category_keywords[k].keywords[j], query)
        THEN <<category_keywords[k].category>>
        ELSE <<>>) \o MatchedCategoriesFrom(query, k + 1)

\* _identify_relevant_categories without the default list
IdentifyCategoriesNoDefault(query) == MatchedCategoriesFrom(query, 1)

_identify_relevant_categories(query) ==
  LET relevant_categories == MatchedCategoriesFrom(query, 1)
  IN  IF relevant_categories = <<>>
      THEN <<"courses", "eligibility", "fees">>
      ELSE relevant_categories

\* str.split(): the maximal runs of characters that are not whitespace, from
\* index i on
RECURSIVE SplitFrom(_, _)
SplitFrom(s, i) ==
  LET b == SkipWs(s, i)
      E == {j \in b..Len(s) : s[j] \in WhiteSpace}
      e == IF E = {} THEN Len(s) + 1 ELSE Min(E)
  IN  IF b > Len(s) THEN <<>>
      ELSE <<SubSeq(s, b, e - 1)>> \o SplitFrom(s, e)

\* set(s.split())
WordSet(s) == {SplitFrom(s, 1)[k] : k \in 1..Len(SplitFrom(s, 1))}

\* len(query_words.intersection(question_words))
Overlap(query, faq) ==
  Cardinality(WordSet(query) \cap WordSet(Lower(faq.question)))

\* relevant_faqs left in the order of faq_list, without the sort
RECURSIVE UnsortedFaqs(_, _, _)
UnsortedFaqs(faq_list, query, n) ==
  IF n = 0 THEN <<>>
  ELSE UnsortedFaqs(faq_list, query, n - 1)
         \o (IF Overlap(query, faq_list[n]) > 0 THEN <<faq_list[n]>> ELSE <<>>)

\* relevant_faqs after list.sort(key=overlap, reverse=True), built from the
\* first n entries of faq_list: the sort is stable, so an entry goes behind
\* every earlier entry whose overlap is not smaller
RECURSIVE SortedFaqs(_, _, _)
SortedFaqs(faq_list, query, n) ==
  IF n = 0 THEN <<>>
  ELSE LET rest == SortedFaqs(faq_list, query, n - 1)
           o == Overlap(query, faq_list[n])
           ahead == {k \in 1..Len(rest) : Overlap(query, rest[k]) >= o}
           cut == IF ahead = {} THEN 0
                  ELSE CHOOSE k \in ahead : \A j \in ahead : j <= k
       IN  IF o > 0
           THEN SubSeq(rest, 1, cut) \o <<faq_list[n]>>
                  \o SubSeq(rest, cut + 1, Len(rest))
           ELSE rest

\* the slice seq[:n]
Take(seq, n) == SubSeq(seq, 1, IF Len(seq) < n THEN Len(seq) ELSE n)

\* _find_relevant_faqs(query) with self.faqs = faq_list
_find_relevant_faqs(faq_list, query) ==
  Take(SortedFaqs(faq_list, query, Len(faq_list)), 5)

\* str.title() of a category name
Title(category) ==
  CASE category = "courses" -> "Courses"
    [] category = "eligibility" -> "Eligibility"
    [] category = "fees" -> "Fees"
    [] category = "important_dates" -> "Important_Dates"
    [] category = "facilities" -> "Facilities"
    [] category = "placement" -> "Placement"
    [] category = "contact" -> "Contact"
    [] OTHER -> category

\* data.get("categories", {}).get(category, {}).get("data", {})
CategoryData(data, category) == Get(data.categories, category, <<>>)

\* the blocks "<Title> Information: <data>" appended for the categories k..
\* of relevant
RECURSIVE CategoryBlocks(_, _, _)
CategoryBlocks(data, relevant, k) ==
  IF k > Len(relevant) THEN <<>>
  ELSE (IF CategoryData(data, relevant[k]) # <<>>
        THEN <<[label |-> Title(relevant[k]),
                data |-> CategoryData(data, relevant[k]), faqs |-> <<>>]>>
        ELSE <<>>) \o CategoryBlocks(data, relevant, k + 1)

\* a context whose university block follows the category blocks
CreateContextUniversityLast(data, faq_list, query) ==
  LET university_data == CategoryData(data, "university")
      relevant_faqs == _find_relevant_faqs(faq_list, query)
  IN  CategoryBlocks(data, _identify_relevant_categories(query), 1)
      \o (IF university_data # <<>>
          THEN <<[label |-> "University", data |-> university_data,
                  faqs |-> <<>>]>>
          ELSE <<>>)
      \o (IF relevant_faqs # <<>>
          THEN <<[label |-> "Relevant FAQs", data |-> <<>>,
                  faqs |-> Take(relevant_faqs, 3)]>>
          ELSE <<>>)

\* context_parts, the blocks that "\n\n".join joins, of
\* _create_context_for_query(query) with self.organized_data = data and
\* self.faqs = faq_list
_create_context_for_query(data, faq_list, query) ==
  LET university_data == CategoryData(data, "university")
      relevant_faqs == _find_relevant_faqs(faq_list, query)
  IN  (IF university_data # <<>>
       THEN <<[label |-> "University", data |-> university_data,
               faqs |-> <<>>]>>
       ELSE <<>>)
      \o CategoryBlocks(data, _identify_relevant_categories(query), 1)
      \o (IF relevant_faqs # <<>>
          THEN <<[label |-> "Relevant FAQs", data |-> <<>>,
                  faqs |-> Take(relevant_faqs, 3)]>>
          ELSE <<>>)

\* the prompt handed to the chat session: the parts that vary with the query
_create_prompt(query, context) ==
  [context |-> context,
   question |-> query,
   style |-> IF Len(SplitFrom(query, 1)) > 8
             THEN "comprehensive and detailed" ELSE "clear and focused"]

\* the prompt of each normalized input under each document, worked out once
Prompts ==
  [data \in Documents |->
     [query \in NormalizedInputs |->
        _create_prompt(query, _create_context_for_query(data, data.faq, query))]]

(***************************************************************************)
(* The completion gateway, self.chat.send_message(prompt): an input of the *)
(* model.  It returns a text or raises; str(e) is the error text.          *)
(***************************************************************************)

\* "  Here is what I found.\n"
ReplyText ==
  <<" "," ","H","e","r","e"," ","i","s"," ","w","h","a","t"," ","I"," ","f","o","u","n","d",".","\n">>

\* "429 quota exceeded"
GatewayError ==
  <<"4","2","9"," ","q","u","o","t","a"," ","e","x","c","e","e","d","e","d">>

GatewayReplies ==
  {[ok |-> TRUE, text |-> ReplyText, error |-> <<>>],
   [ok |-> FALSE, text |-> <<>>, error |-> GatewayError]}

\* str(e) of an exception raised inside the pipeline itself: "KeyError"
InternalFault ==
  <<"K","e","y","E","r","r","o","r">>

(***************************************************************************)
(* AdmissionChatbot._generate_ai_response, _add_to_history,                *)
(* _create_error_response, process_query                                   *)
(***************************************************************************)

\* the default of quick_responses.get("fallback", ...):
\* "I'm sorry, I'm having trouble processing your request right now."
DefaultFallback ==
  PyStr(<<"I","'","m"," ","s","o","r","r","y",","," ","I","'","m"," ","h","a","v","i","n","g"," ","t","r","o","u","b","l","e"," ","p","r","o","c","e","s","s","i","n","g"," ","y","o","u","r"," ","r","e","q","u","e","s","t"," ","r","i","g","h","t"," ","n","o","w",".">>)

\* _generate_ai_response with an except clause that answers with str(e)
GenerateAiResponseLeaking(query, reply, fault) ==
  IF fault # "context" /\ reply.ok
  THEN [response |-> PyStr(Strip(reply.text)),
        response_type |-> "ai_generated",
        confidence |-> 80,
        sources |-> <<"gemini_ai", "admission_data">>,
        timestamp |-> now]
  ELSE [response |-> PyStr(IF fault = "context" THEN InternalFault
                           ELSE reply.error),
        response_type |-> "fallback",
        confidence |-> 10,
        sources |-> <<"fallback">>,
        timestamp |-> now,
        error |-> IF fault = "context" THEN InternalFault ELSE reply.error]

\* fault = "context": _create_context_for_query or _create_prompt raises, so
\* send_message is not reached
_generate_ai_response(query, reply, fault) ==
  LET failed == fault = "context" \/ ~reply.ok
  IN  IF ~failed
      THEN [response |-> PyStr(Strip(reply.text)),
            response_type |-> "ai_generated",
            confidence |-> 80,
            sources |-> <<"gemini_ai", "admission_data">>,
            timestamp |-> now]
      ELSE [response |-> Get(quick_responses, "fallback", DefaultFallback),
            response_type |-> "fallback",
            confidence |-> 10,
            sources |-> <<"fallback">>,
            timestamp |-> now,
            error |-> IF fault = "context" THEN InternalFault ELSE reply.error]

\* how many turns conversation_history keeps
MaxHistory == 10

\* the slice seq[-n:]
LastN(seq, n) ==
  IF Len(seq) > n THEN SubSeq(seq, Len(seq) - n + 1, Len(seq)) ELSE seq

\* _add_to_history keeping the first MaxHistory turns instead of the last
AddToHistoryKeepingOldest(history, query, response, number) ==
  LET appended == Append(history, [timestamp |-> now, query |-> query,
                                   response |-> response,
                                   query_number |-> number])
  IN  IF Len(appended) > MaxHistory THEN SubSeq(appended, 1, MaxHistory)
      ELSE appended

\* conversation_history after _add_to_history(query, response), with
\* self.query_count = number
_add_to_history(history, query, response, number) ==
  LET appended == Append(history, [timestamp |-> now, query |-> query,
                                   response |-> response,
                                   query_number |-> number])
  IN  IF Len(appended) > MaxHistory THEN LastN(appended, MaxHistory)
      ELSE appended

\* the text of _create_error_response:
\* "I apologize, but I'm experiencing some technical difficulties."
ErrorText ==
  PyStr(<<"I"," ","a","p","o","l","o","g","i","z","e",","," ","b","u","t"," ","I","'","m"," ","e","x","p","e","r","i","e","n","c","i","n","g"," ","s","o","m","e"," ","t","e","c","h","n","i","c","a","l"," ","d","i","f","f","i","c","u","l","t","i","e","s",".">>)

\* _create_error_response answering as the fallback path does
CreateErrorResponseAsFallback(error_message) ==
  [response |-> ErrorText,
   response_type |-> "fallback",
   confidence |-> 10,
   sources |-> <<"error_handler">>,
   timestamp |-> now,
   error |-> error_message]

_create_error_response(error_message) ==
  [response |-> ErrorText,
   response_type |-> "error",
   confidence |-> 0,
   sources |-> <<"error_handler">>,
   timestamp |-> now,
   error |-> error_message]

\* session ids: the one a client sends, None, or the one get_response makes up
\* from the clock, f"session_{int(time.time())}"
ClientId(name) == [name |-> name, at |-> 0 - 1]
NoneId == [name |-> "None", at |-> 0 - 1]
GeneratedId(t) == [name |-> "session", at |-> t]

\* the stages of process_query at which an exception can be raised inside it
\* ("" is no fault); "context" is raised inside _generate_ai_response
FaultStages == {"preprocess", "quick", "context", "history", "metadata"}

\* response_data.update({...}) in process_query
Stamped(response_data, number, user_id) ==
  [query_id |-> <<number, now>>, user_id |-> user_id,
   session_duration |-> now - session_start_time] @@ response_data

\* the response_data process_query builds from a quick response
QuickEnvelope(quick_response) ==
  [response |-> quick_response, response_type |-> "quick",
   confidence |-> 90, sources |-> <<"quick_responses">>,
   timestamp |-> now]

\* GatewayCalls with a retry after the first call
GatewayCallsRetried(fault) == IF fault = "context" THEN 0 ELSE 2

\* how often one run of _generate_ai_response calls self.chat.send_message:
\* once, with no retry, unless an exception is raised before the call
GatewayCalls(fault) == IF fault = "context" THEN 0 ELSE 1

\* what the gateway is recorded to have been sent when it was not asked
NoPrompt == [context |-> <<>>, question |-> <<>>, style |-> ""]

\* the stages run by a call that never reached process_query
NoCalls == [preprocess |-> 0, quick |-> 0, context |-> 0, gateway |-> 0]

\* process_query(user_query, user_id), with the gateway answering `reply` if
\* asked and an exception raised at stage `fault` if the call gets there: the
\* envelope returned, the fields of self afterwards, the stage that did raise,
\* the prompt sent, and how often each stage ran
\* (self.faqs is the faq list of self.organized_data ever since _load_data)
\* the rest of process_query once _preprocess_query gave processed_query and
\* _check_quick_responses gave quick_response
Orchestrated(user_query, user_id, reply, fault, processed_query, quick_response) ==
  LET number == query_count + 1
      quick == fault # "preprocess" /\ fault # "quick" /\ Truthy(quick_response)
      generated == fault # "preprocess" /\ fault # "quick" /\ ~quick
      response_data ==
        IF quick THEN QuickEnvelope(quick_response)
        ELSE _generate_ai_response(processed_query, reply, fault)
      appended == fault \notin {"preprocess", "quick", "history"}
      raised == fault \in {"preprocess", "quick", "history", "metadata"}
  IN  [response_data |->
         IF raised THEN _create_error_response(InternalFault)
         ELSE Stamped(response_data, number, user_id),
       query_count |-> number,
       conversation_history |->
         IF appended
         THEN _add_to_history(conversation_history, user_query,
                              response_data.response, number)
         ELSE conversation_history,
       appended |-> appended,
       turn_response |-> response_data.response,
       raised |-> IF fault = "context" /\ ~generated THEN "" ELSE fault,
       prompt |-> IF generated /\ GatewayCalls(fault) > 0
                  THEN Prompts[organized_data][processed_query]
                  ELSE NoPrompt,
       calls |-> [preprocess |-> 1,
                  quick |-> IF fault = "preprocess" THEN 0 ELSE 1,
                  context |-> IF generated THEN 1 ELSE 0,
                  gateway |-> IF generated THEN GatewayCalls(fault) ELSE 0]]

\* the rest of process_query once _preprocess_query gave processed_query
Normalized(user_query, user_id, reply, fault, processed_query) ==
  Orchestrated(user_query, user_id, reply, fault, processed_query,
               _check_quick_responses(processed_query))

process_query(user_query, user_id, reply, fault) ==
  Normalized(user_query, user_id, reply, fault, Preprocessed[user_query])

(***************************************************************************)
(* ChatbotIntegration.get_response, cleanup_sessions and the /api/chat     *)
(* handler of FlaskWebIntegration, each run to completion by one caller.   *)
(***************************************************************************)

\* the text of get_response's own error path:
\* "I apologize, but I'm experiencing technical difficulties. Please try again."
IntegrationErrorText ==
  PyStr(<<"I"," ","a","p","o","l","o","g","i","z","e",","," ","b","u","t"," ","I","'","m"," ","e","x","p","e","r","i","e","n","c","i","n","g"," ","t","e","c","h","n","i","c","a","l"," ","d","i","f","f","i","c","u","l","t","i","e","s","."," ","P","l","e","a","s","e"," ","t","r","y"," ","a","g","a","i","n",".">>)

\* dict d with d[key] = value
Put(d, key, value) == (key :> value) @@ d

\* TouchedSession starting every record afresh
TouchedSessionAfresh(sid) ==
  [start_time |-> now, query_count |-> 1, last_activity |-> now]

\* the session record get_response finds or creates, counted and touched
\* (the block `# Track session` / `# Update session info`)
TouchedSession(sid) ==
  LET session == IF sid \in DOMAIN active_sessions
                 THEN active_sessions[sid]
                 ELSE [start_time |-> now, query_count |-> 0,
                       last_activity |-> now]
  IN  [session EXCEPT !.query_count = @ + 1, !.last_activity = now]

\* the session id get_response works with
SessionIdFor(session_id) ==
  IF session_id = NoneId THEN GeneratedId(now) ELSE session_id

\* what the process_query call of a request that never made it is recorded as
NotCalled == [raised |-> "", prompt |-> NoPrompt, calls |-> NoCalls]

\* the rest of get_response for session sid once process_query returned
\* chatbot.
\* fault = "session": the session bookkeeping raises (a session_id that cannot
\* be a dict key), which get_response's own except clause answers
Responded(sid, fault, chatbot) ==
  IF fault = "session"
  THEN [response_data |->
          [response |-> IntegrationErrorText, response_type |-> "error",
           confidence |-> 0, session_id |-> sid, status |-> "error",
           error |-> InternalFault],
        active_sessions |-> active_sessions,
        request_count |-> request_count,
        called |-> FALSE,
        chatbot |-> NotCalled]
  ELSE [response_data |->
          [session_id |-> sid,
           session_query_count |-> TouchedSession(sid).query_count,
           status |-> "success"] @@ chatbot.response_data,
        active_sessions |-> Put(active_sessions, sid, TouchedSession(sid)),
        request_count |-> request_count + 1,
        called |-> TRUE,
        chatbot |-> chatbot]

\* get_response(query, session_id): what it returns, the fields of self
\* afterwards and the result of the process_query call it makes
get_response(query, session_id, reply, fault) ==
  Responded(SessionIdFor(session_id), fault,
            process_query(query, SessionIdFor(session_id), reply, fault))

\* the default of cleanup_sessions' max_inactive_minutes
DefaultMaxInactive == 30

\* cleanup_sessions removing the sessions idle for max_inactive_minutes or more
CleanupSessionsInclusive(max_inactive_minutes) ==
  LET inactive_sessions ==
        {sid \in DOMAIN active_sessions :
           now - active_sessions[sid].last_activity >= max_inactive_minutes}
  IN  [sid \in DOMAIN active_sessions \ inactive_sessions |->
         active_sessions[sid]]

\* active_sessions after cleanup_sessions(max_inactive_minutes)
cleanup_sessions(max_inactive_minutes) ==
  LET inactive_sessions ==
        {sid \in DOMAIN active_sessions :
           now - active_sessions[sid].last_activity > max_inactive_minutes}
  IN  [sid \in DOMAIN active_sessions \ inactive_sessions |->
         active_sessions[sid]]

(***************************************************************************)
(* Inputs and bounds                                                       *)
(***************************************************************************)

SessionIds == {NoneId, ClientId("s1")}

\* the session ids of the runs that exercise the session map and the history
LedgerIds == {NoneId, ClientId("s1"), ClientId("s2")}
ClientIds == {ClientId("s1"), ClientId("s2")}

\* the steps the clock makes, in minutes, and the arguments of cleanup_sessions
ClockSteps == {15}
SweepLimits == {15, DefaultMaxInactive}

\* the clock stops at MaxClock minutes where sessions are swept, and at
\* PipelineClock minutes where the query pipeline is exercised
MaxClock == 45
PipelineClock == 15

\* at most MaxCalls calls of process_query, and of get_response, are made
MaxCalls == 2

\* at most MaxRequests calls of get_response are made where sessions are swept,
\* and at most MaxTurns where the history is filled
MaxRequests == 3
MaxTurns == 12

\* what the gateway is recorded to have answered when it was not asked
NoReply == [ok |-> FALSE, text |-> <<>>, error |-> <<>>]

Idle == [op |-> "none", query |-> <<>>, session_id |-> NoneId, limit |-> 0,
         reply |-> NoReply, prompt |-> NoPrompt, fault |-> "", http |-> 0,
         result |-> EmptyDict, calls |-> NoCalls]

\* the record of a call that returned; chatbot is the process_query call it
\* made
Returned(op, query, session_id, reply, fault, http, result, called, chatbot) ==
  [op |-> op, query |-> query, session_id |-> session_id, limit |-> 0,
   reply |-> IF called /\ chatbot.calls.gateway > 0 THEN reply ELSE NoReply,
   prompt |-> IF called THEN chatbot.prompt ELSE NoPrompt,
   fault |-> IF called THEN chatbot.raised ELSE fault,
   http |-> http, result |-> result,
   calls |-> IF called THEN chatbot.calls ELSE NoCalls]

\* log after process_query(user_query, user_id) returned: every turn handed
\* to _add_to_history since construction or reset, with the user_id it was
\* recorded for
Logged(chatbot, user_query, user_id) ==
  IF chatbot.appended
  THEN Append(log, [turn |-> [timestamp |-> now, query |-> user_query,
                              response |-> chatbot.turn_response,
                              query_number |-> chatbot.query_count],
                    owner |-> user_id])
  ELSE log

(***************************************************************************)
(* Construction                                                            *)
(***************************************************************************)

\* the threads that serve requests, each at most MaxServed of them
Threads == {1, 2}
MaxServed == 1

\* what a request thread has returned before its first request
NoResult == [status |-> "none", session_query_count |-> 0]

\* a request thread between requests: where it is in get_response, the
\* session id it works with, the value it last read, whether the session
\* record it holds is no longer the one in the map, the requests it took and
\* what the last one returned
HandlerIdle ==
  [pc |-> "idle", session_id |-> NoneId, read |-> 0, orphan |-> FALSE,
   begun |-> 0, result |-> NoResult]

\* the cleanup thread asleep: where it is in cleanup_sessions, its
\* current_time, the size of the dict when its loop began, the keys the loop
\* has visited and its inactive_sessions
SweeperIdle ==
  [pc |-> "sleep", current_time |-> 0, size |-> 0, seen |-> {},
   inactive_sessions |-> {}]

\* ChatbotIntegration.__init__ and AdmissionChatbot.__init__, with _load_data
\* ending up with one of Documents
Init ==
  /\ now = 0
  /\ organized_data \in Documents
  /\ quick_responses = organized_data.quick_responses
  /\ faqs = organized_data.faq
  /\ conversation_history = <<>>
  /\ session_start_time = now
  /\ query_count = 0
  /\ active_sessions = [sid \in {} |-> 0]
  /\ request_count = 0
  /\ returned = Idle
  /\ log = <<>>
  /\ handlers = [t \in Threads |-> HandlerIdle]
  /\ sweeper = SweeperIdle

(***************************************************************************)
(* One caller at a time: each call runs to completion.                     *)
(***************************************************************************)

\* time passes
Tick(d) ==
  /\ now' = now + d
  /\ UNCHANGED <<organized_data, quick_responses, faqs, conversation_history,
                 session_start_time, query_count, active_sessions,
                 request_count, returned, log, handlers, sweeper>>

\* the assignments of a process_query call that returned r
ProcessQueryReturns(user_query, reply, fault, r) ==
  /\ query_count' = r.query_count
  /\ conversation_history' = r.conversation_history
  /\ log' = Logged(r, user_query, NoneId)
  /\ returned' = Returned("process_query", user_query, NoneId, reply, fault,
                          0, r.response_data, TRUE, r)
  /\ UNCHANGED <<now, organized_data, quick_responses, faqs,
                 session_start_time, active_sessions, request_count,
                 handlers, sweeper>>

\* chatbot.process_query(user_query), as the command line loop and the tests
\* call it
ProcessQueryCall(user_query, reply, fault) ==
  ProcessQueryReturns(user_query, reply, fault,
                      process_query(user_query, NoneId, reply, fault))

\* the assignments of a get_response call that returned g, made as `op` for
\* the text `asked`
GetResponseReturns(op, asked, query, session_id, reply, fault, http, g) ==
  /\ active_sessions' = g.active_sessions
  /\ request_count' = g.request_count
  /\ query_count' = IF g.called THEN g.chatbot.query_count ELSE query_count
  /\ conversation_history' =
       IF g.called THEN g.chatbot.conversation_history
       ELSE conversation_history
  /\ log' = IF g.called
            THEN Logged(g.chatbot, query, g.response_data.session_id)
            ELSE log
  /\ returned' = Returned(op, asked, session_id, reply, fault, http,
                          IF op = "chat_api"
                          THEN [status |-> "success"] @@ g.response_data
                          ELSE g.response_data,
                          g.called, g.chatbot)
  /\ UNCHANGED <<now, organized_data, quick_responses, faqs,
                 session_start_time, handlers, sweeper>>

\* integration.get_response(query, session_id)
GetResponseCall(query, session_id, reply, fault) ==
  GetResponseReturns("get_response", query, query, session_id, reply, fault,
                     0, get_response(query, session_id, reply, fault))

\* "Empty query"
EmptyQueryError ==
  <<"E","m","p","t","y"," ","q","u","e","r","y">>

\* POST /api/chat with a body that holds a str query and maybe a session_id
ChatApiCall(body_query, session_id, reply, fault) ==
  IF Strip(body_query) = <<>>
  THEN /\ returned' = Returned("chat_api", body_query, session_id, reply,
                               fault, 400,
                               [error |-> EmptyQueryError,
                                status |-> "error"], FALSE, NotCalled)
       /\ UNCHANGED <<now, organized_data, quick_responses, faqs,
                      conversation_history, session_start_time,
                      query_count, active_sessions, request_count, log,
                      handlers, sweeper>>
  ELSE GetResponseReturns("chat_api", body_query, Strip(body_query),
                          session_id, reply, fault, 200,
                          get_response(Strip(body_query), session_id, reply,
                                       fault))

\* integration.cleanup_sessions(max_inactive_minutes)
CleanupSessionsCall(max_inactive_minutes) ==
  /\ active_sessions' = cleanup_sessions(max_inactive_minutes)
  /\ returned' = [Idle EXCEPT !.op = "cleanup_sessions",
                              !.limit = max_inactive_minutes]
  /\ UNCHANGED <<now, organized_data, quick_responses, faqs,
                 conversation_history, session_start_time, query_count,
                 request_count, log, handlers, sweeper>>

\* chatbot.reset_conversation()
ResetConversation ==
  /\ conversation_history' = <<>>
  /\ query_count' = 0
  /\ session_start_time' = now
  /\ log' = <<>>
  /\ returned' = [Idle EXCEPT !.op = "reset_conversation"]
  /\ UNCHANGED <<now, organized_data, quick_responses, faqs, active_sessions,
                 request_count, handlers, sweeper>>

\* room for one more call
Room == query_count < MaxCalls /\ request_count < MaxCalls

\* the query pipeline: single callers of process_query, get_response and
\* /api/chat
Next ==
  \/ \E d \in ClockSteps : now + d <= PipelineClock /\ Tick(d)
  \/ \E q \in Queries, reply \in GatewayReplies :
       Room /\ ProcessQueryCall(q, reply, "")
  \/ \E q \in Queries, sid \in SessionIds, reply \in GatewayReplies :
       Room /\ GetResponseCall(q, sid, reply, "")
  \/ \E q \in Queries, sid \in SessionIds, reply \in GatewayReplies :
       Room /\ ChatApiCall(q, sid, reply, "")

Spec == Init /\ [][Next]_vars

(***************************************************************************)
(* Concurrent callers: the request threads of the web server run           *)
(* get_response statement by statement, with no lock, and the cleanup      *)
(* thread runs cleanup_sessions beside them.  `x += 1` is a read and a     *)
(* write; the turns are few enough that _add_to_history never trims.       *)
(***************************************************************************)

\* handlers with the thread t at pc and its fields changed to h
Moved(t, pc, h) == [handlers EXCEPT ![t] = [h EXCEPT !.pc = pc]]

\* get_response's except clause: the request of t returns the error dict
Failed(t) ==
  Moved(t, "idle", [handlers[t] EXCEPT !.result.status = "error"])

\* the handlers after the record of session sid was taken out of the map or
\* replaced: a thread about to store into that record now holds a dict the
\* map no longer has
Orphaned(hs, sid) ==
  [t \in Threads |->
     IF hs[t].pc = "write_count" /\ hs[t].session_id = sid
     THEN [hs[t] EXCEPT !.orphan = TRUE] ELSE hs[t]]

\* a request arrives at thread t: get_response(QHello, session_id) begins
BeginRequest(t, session_id) ==
  /\ handlers[t].pc = "idle"
  /\ handlers[t].begun < MaxServed
  /\ handlers' = Moved(t, "check",
                       [handlers[t] EXCEPT
                          !.session_id = SessionIdFor(session_id),
                          !.begun = @ + 1, !.orphan = FALSE,
                          !.result = NoResult])
  /\ UNCHANGED <<now, organized_data, quick_responses, faqs,
                 conversation_history, session_start_time, query_count,
                 active_sessions, request_count, returned, log, sweeper>>

\* `if session_id not in self.active_sessions`
CheckSession(t) ==
  /\ handlers[t].pc = "check"
  /\ handlers' = Moved(t, IF handlers[t].session_id \in DOMAIN active_sessions
                          THEN "read_count" ELSE "create", handlers[t])
  /\ UNCHANGED <<now, organized_data, quick_responses, faqs,
                 conversation_history, session_start_time, query_count,
                 active_sessions, request_count, returned, log, sweeper>>

\* `self.active_sessions[session_id] = {...}`
CreateSession(t) ==
  /\ handlers[t].pc = "create"
  /\ active_sessions' =
       Put(active_sessions, handlers[t].session_id,
           [start_time |-> now, query_count |-> 0, last_activity |-> now])
  /\ handlers' = Orphaned(Moved(t, "read_count", handlers[t]),
                          handlers[t].session_id)
  /\ UNCHANGED <<now, organized_data, quick_responses, faqs,
                 conversation_history, session_start_time, query_count,
                 request_count, returned, log, sweeper>>

\* `self.active_sessions[session_id]["query_count"] += 1`, the read
ReadCount(t) ==
  /\ handlers[t].pc = "read_count"
  /\ handlers' =
       IF handlers[t].session_id \in DOMAIN active_sessions
       THEN Moved(t, "write_count",
                  [handlers[t] EXCEPT
                     !.read = active_sessions[handlers[t].session_id].query_count,
                     !.orphan = FALSE])
       ELSE Failed(t)
  /\ UNCHANGED <<now, organized_data, quick_responses, faqs,
                 conversation_history, session_start_time, query_count,
                 active_sessions, request_count, returned, log, sweeper>>

\* `self.active_sessions[session_id]["query_count"] += 1`, the write
WriteCount(t) ==
  /\ handlers[t].pc = "write_count"
  /\ active_sessions' =
       IF handlers[t].orphan THEN active_sessions
       ELSE [active_sessions EXCEPT
               ![handlers[t].session_id].query_count = handlers[t].read + 1]
  /\ handlers' = Moved(t, "touch", handlers[t])
  /\ UNCHANGED <<now, organized_data, quick_responses, faqs,
                 conversation_history, session_start_time, query_count,
                 request_count, returned, log, sweeper>>

\* `self.active_sessions[session_id]["last_activity"] = datetime.now()`
TouchActivity(t) ==
  /\ handlers[t].pc = "touch"
  /\ IF handlers[t].session_id \in DOMAIN active_sessions
     THEN /\ active_sessions' =
               [active_sessions EXCEPT
                  ![handlers[t].session_id].last_activity = now]
          /\ handlers' = Moved(t, "read_requests", handlers[t])
     ELSE /\ active_sessions' = active_sessions
          /\ handlers' = Failed(t)
  /\ UNCHANGED <<now, organized_data, quick_responses, faqs,
                 conversation_history, session_start_time, query_count,
                 request_count, returned, log, sweeper>>

\* `self.request_count += 1`, the read
ReadRequests(t) ==
  /\ handlers[t].pc = "read_requests"
  /\ handlers' = Moved(t, "write_requests",
                       [handlers[t] EXCEPT !.read = request_count])
  /\ UNCHANGED <<now, organized_data, quick_responses, faqs,
                 conversation_history, session_start_time, query_count,
                 active_sessions, request_count, returned, log, sweeper>>

\* `self.request_count += 1`, the write
WriteRequests(t) ==
  /\ handlers[t].pc = "write_requests"
  /\ request_count' = handlers[t].read + 1
  /\ handlers' = Moved(t, "read_queries", handlers[t])
  /\ UNCHANGED <<now, organized_data, quick_responses, faqs,
                 conversation_history, session_start_time, query_count,
                 active_sessions, returned, log, sweeper>>

\* process_query: `self.query_count += 1`, the read
ReadQueries(t) ==
  /\ handlers[t].pc = "read_queries"
  /\ handlers' = Moved(t, "write_queries",
                       [handlers[t] EXCEPT !.read = query_count])
  /\ UNCHANGED <<now, organized_data, quick_responses, faqs,
                 conversation_history, session_start_time, query_count,
                 active_sessions, request_count, returned, log, sweeper>>

\* process_query: `self.query_count += 1`, the write
WriteQueries(t) ==
  /\ handlers[t].pc = "write_queries"
  /\ query_count' = handlers[t].read + 1
  /\ handlers' = Moved(t, "respond", handlers[t])
  /\ UNCHANGED <<now, organized_data, quick_responses, faqs,
                 conversation_history, session_start_time, active_sessions,
                 request_count, returned, log, sweeper>>

\* the history and the log once the rest of process_query built the answer
\* `response` for thread t: _add_to_history reads self.query_count as it is
\* by then
Answered(t, response) ==
  /\ conversation_history' =
       _add_to_history(conversation_history, QHello, response, query_count)
  /\ log' = Append(log, [turn |-> [timestamp |-> now, query |-> QHello,
                                   response |-> response,
                                   query_number |-> query_count],
                         owner |-> handlers[t].session_id])

\* process_query after the count: the answer is built and the turn recorded
Respond(t) ==
  /\ handlers[t].pc = "respond"
  /\ Answered(t, process_query(QHello, handlers[t].session_id, NoReply,
                               "").turn_response)
  /\ handlers' = Moved(t, "finish", handlers[t])
  /\ UNCHANGED <<now, organized_data, quick_responses, faqs,
                 session_start_time, query_count, active_sessions,
                 request_count, returned, sweeper>>

\* `response_data["session_query_count"] =
\*    self.active_sessions[session_id]["query_count"]` and the return
FinishRequest(t) ==
  /\ handlers[t].pc = "finish"
  /\ handlers' =
       IF handlers[t].session_id \in DOMAIN active_sessions
       THEN Moved(t, "idle",
                  [handlers[t] EXCEPT
                     !.result =
                       [status |-> "success",
                        session_query_count |->
                          active_sessions[handlers[t].session_id].query_count]])
       ELSE Failed(t)
  /\ UNCHANGED <<now, organized_data, quick_responses, faqs,
                 conversation_history, session_start_time, query_count,
                 active_sessions, request_count, returned, log, sweeper>>

\* one statement of one request thread, its requests bearing one of ids
HandlerStep(t, ids) ==
  \/ \E sid \in ids : BeginRequest(t, sid)
  \/ CheckSession(t)
  \/ CreateSession(t)
  \/ ReadCount(t)
  \/ WriteCount(t)
  \/ TouchActivity(t)
  \/ ReadRequests(t)
  \/ WriteRequests(t)
  \/ ReadQueries(t)
  \/ WriteQueries(t)
  \/ Respond(t)
  \/ FinishRequest(t)

\* cleanup_worker wakes up: cleanup_sessions() takes the time and starts its
\* loop over self.active_sessions.items()
SweepStart ==
  /\ sweeper.pc = "sleep"
  /\ sweeper' = [pc |-> "scan", current_time |-> now,
                 size |-> Cardinality(DOMAIN active_sessions),
                 seen |-> {}, inactive_sessions |-> {}]
  /\ UNCHANGED <<now, organized_data, quick_responses, faqs,
                 conversation_history, session_start_time, query_count,
                 active_sessions, request_count, returned, log, handlers>>

\* one turn of the loop: the dict iterator raises RuntimeError if the dict
\* changed size since the loop began, and nothing in cleanup_worker catches
\* it; else it gives the next entry, or ends the loop
SweepScan ==
  /\ sweeper.pc = "scan"
  /\ IF Cardinality(DOMAIN active_sessions) # sweeper.size
     THEN sweeper' = [sweeper EXCEPT !.pc = "aborted"]
     ELSE IF DOMAIN active_sessions \subseteq sweeper.seen
     THEN sweeper' = [sweeper EXCEPT !.pc = "delete"]
     ELSE \E sid \in DOMAIN active_sessions \ sweeper.seen :
            sweeper' =
              [sweeper EXCEPT
                 !.seen = @ \cup {sid},
                 !.inactive_sessions =
                   IF sweeper.current_time - active_sessions[sid].last_activity
                        > DefaultMaxInactive
                   THEN @ \cup {sid} ELSE @]
  /\ UNCHANGED <<now, organized_data, quick_responses, faqs,
                 conversation_history, session_start_time, query_count,
                 active_sessions, request_count, returned, log, handlers>>

\* `del self.active_sessions[session_id]` for one of inactive_sessions, or
\* the return of cleanup_sessions when none is left
SweepDelete ==
  /\ sweeper.pc = "delete"
  /\ IF sweeper.inactive_sessions = {}
     THEN /\ sweeper' = SweeperIdle
          /\ UNCHANGED <<active_sessions, handlers>>
     ELSE \E sid \in sweeper.inactive_sessions :
            /\ active_sessions' =
                 [other \in DOMAIN active_sessions \ {sid} |->
                    active_sessions[other]]
            /\ handlers' = Orphaned(handlers, sid)
            /\ sweeper' = [sweeper EXCEPT !.inactive_sessions = @ \ {sid}]
  /\ UNCHANGED <<now, organized_data, quick_responses, faqs,
                 conversation_history, session_start_time, query_count,
                 request_count, returned, log>>

\* construction with the organized document loaded, for the threads
InitThreads == Init /\ organized_data = OrganizedDocument

\* request threads alone
NextConc == \E t \in Threads : HandlerStep(t, ClientIds)

SpecConc == InitThreads /\ [][NextConc]_vars

\* request threads and the cleanup thread as time passes
NextSweep ==
  \/ \E d \in ClockSteps : now + d <= MaxClock /\ Tick(d)
  \/ \E t \in Threads : HandlerStep(t, {ClientId("s1")})
  \/ SweepStart
  \/ SweepScan
  \/ SweepDelete

SpecSweep == InitThreads /\ [][NextSweep]_vars

\* the query pipeline with an exception raised inside a call
NextFault ==
  \/ \E d \in ClockSteps : now + d <= PipelineClock /\ Tick(d)
  \/ \E q \in Queries, reply \in GatewayReplies,
        fault \in FaultStages \cup {""} :
       Room /\ ProcessQueryCall(q, reply, fault)
  \/ \E q \in Queries, reply \in GatewayReplies,
        fault \in FaultStages \cup {"", "session"} :
       Room /\ GetResponseCall(q, ClientId("s1"), reply, fault)

SpecFault == Init /\ [][NextFault]_vars

\* one conversation after another through get_response, long enough to fill
\* the history
NextHistory ==
  \/ \E sid \in ClientIds, reply \in GatewayReplies :
       request_count < MaxTurns /\ GetResponseCall(QHello, sid, reply, "")
  \/ conversation_history # <<>> /\ ResetConversation

\* construction with the organized document loaded
InitHistory == Init /\ organized_data = OrganizedDocument

SpecHistory == InitHistory /\ [][NextHistory]_vars

\* sessions touched by get_response and swept by cleanup_sessions as time
\* passes
NextSessions ==
  \/ \E d \in ClockSteps : now + d <= MaxClock /\ Tick(d)
  \/ \E sid \in LedgerIds, reply \in GatewayReplies :
       request_count < MaxRequests /\ GetResponseCall(QHello, sid, reply, "")
  \/ \E m \in SweepLimits : CleanupSessionsCall(m)

SpecSessions == Init /\ [][NextSessions]_vars

(***************************************************************************)
(* Properties                                                              *)
(***************************************************************************)

\* the last call that returned ran process_query
Processed == returned.calls.preprocess = 1

\* the query that call handed to process_query
HandedQuery ==
  IF returned.op = "chat_api" THEN Strip(returned.query) ELSE returned.query

\* what the quick-response matcher gives for that query
MatcherResult == _check_quick_responses(Preprocessed[HandedQuery])

\* C1: every processed query takes exactly one of two paths.  If the matcher
\* returns a template, the envelope has kind quick, confidence 0.9 and sources
\* [quick_responses] and the gateway is not called; otherwise the gateway is
\* called exactly once before the envelope is built.
C1_TwoPaths ==
  Processed =>
    IF Truthy(MatcherResult)
    THEN /\ returned.result.response_type = "quick"
         /\ returned.result.confidence = 90
         /\ returned.result.sources = <<"quick_responses">>
         /\ returned.result.response = MatcherResult
         /\ returned.calls.gateway = 0
    ELSE /\ returned.calls.gateway = 1
         /\ returned.result.response_type \in {"ai_generated", "fallback"}

\* a query went down the gateway path after an earlier one was answered from
\* a template
C1_Witness ==
  /\ Processed
  /\ ~Truthy(MatcherResult)
  /\ returned.calls.gateway = 1
  /\ \E k \in 1..Len(log) :
       log[k].turn.response = Get(quick_responses, "greeting", DefaultGreeting)

\* the fallback template in force
ConfiguredFallback ==
  IF "fallback" \in DOMAIN organized_data.quick_responses
  THEN organized_data.quick_responses.fallback
  ELSE DefaultFallback

\* the gateway was asked by the last call and failed
GatewayFailed ==
  Processed /\ returned.calls.gateway > 0 /\ ~returned.reply.ok

\* C2: when a query has no quick-response match and the gateway call fails,
\* process_query returns an envelope with kind fallback, confidence 0.1,
\* sources [fallback] and the configured fallback template as its text, and
\* the turn is appended to the conversation history.
C2_GatewayFailureFallsBack ==
  GatewayFailed =>
    /\ returned.result.response_type = "fallback"
    /\ returned.result.confidence = 10
    /\ returned.result.sources = <<"fallback">>
    /\ returned.result.response = ConfiguredFallback
    /\ returned.result.error = returned.reply.error
    /\ conversation_history # <<>>
    /\ LET turn == conversation_history[Len(conversation_history)]
       IN  /\ turn.query = HandedQuery
           /\ turn.response = ConfiguredFallback
           /\ turn.query_number = query_count

\* the gateway failed on the second query of a conversation
C2_Witness ==
  /\ GatewayFailed
  /\ ~Truthy(MatcherResult)
  /\ Len(conversation_history) = 2

\* C4 (as claimed): an empty or whitespace-only query given to process_query
\* is short-circuited before normalization: neither the normalizer nor the
\* matcher nor context assembly nor the gateway is invoked, and the envelope
\* returned is none of the generated kinds.
C4_BlankShortCircuited ==
  (returned.op \in {"process_query", "get_response"}
     /\ Strip(returned.query) = <<>>) =>
    /\ returned.calls = NoCalls
    /\ returned.result.response_type \notin {"ai_generated", "fallback"}

\* the kinds of envelope process_query builds
EnvelopeKinds == {"quick", "ai_generated", "fallback", "error"}

\* the stages whose exceptions reach the except clause of process_query
OuterStages == {"preprocess", "quick", "history", "metadata"}

\* C3 (as claimed): for every internal fault raised during normalization,
\* matching, context assembly, history append or metadata stamping,
\* process_query returns an envelope with kind error and confidence 0.0.
C3_EveryFaultIsError ==
  (Processed /\ returned.fault \in FaultStages) =>
    /\ returned.result.response_type = "error"
    /\ returned.result.confidence = 0

\* C3: no exception escapes process_query, every call returns an envelope of
\* one of the four kinds.  A fault raised during normalization, matching,
\* history append or metadata stamping gives the envelope of
\* _create_error_response, kind error and confidence 0.0; a fault raised
\* during context assembly is answered inside _generate_ai_response, as a
\* gateway failure is, with kind fallback and confidence 0.1, and the gateway
\* is not called.
C3_FaultsAnswered ==
  Processed =>
    /\ returned.result.response_type \in EnvelopeKinds
    /\ returned.fault \in OuterStages =>
         /\ returned.result.response_type = "error"
         /\ returned.result.confidence = 0
         /\ returned.result.sources = <<"error_handler">>
         /\ returned.result.response = ErrorText
         /\ returned.result.error = InternalFault
    /\ returned.fault = "context" =>
         /\ returned.result.response_type = "fallback"
         /\ returned.result.confidence = 10
         /\ returned.result.response = ConfiguredFallback
         /\ returned.calls.gateway = 0
    /\ returned.fault = "" =>
         returned.result.response_type # "error"

\* context assembly raised in the second call of a conversation and its
\* fallback answer was recorded as the second turn
C3_Witness ==
  /\ Processed
  /\ returned.fault = "context"
  /\ returned.result.response_type = "fallback"
  /\ query_count = 2
  /\ Len(conversation_history) = 2

\* the turns log holds, in the order they were recorded
LoggedTurns == [k \in 1..Len(log) |-> log[k].turn]

\* C5: after n processed queries without a reset the conversation history
\* holds exactly the last min(n, 10) turns in the order they were processed:
\* each processed query appended one turn, the length never exceeds 10, and
\* from the 11th turn on the oldest turn is the one dropped.
C5_LastTenTurns ==
  /\ Len(log) = query_count
  /\ \A k \in 1..Len(log) : log[k].turn.query_number = k
  /\ Len(conversation_history) =
       (IF Len(log) < MaxHistory THEN Len(log) ELSE MaxHistory)
  /\ conversation_history = LastN(LoggedTurns, MaxHistory)

\* the 12th turn arrived: the first two are gone and the last one is the 12th
C5_Witness ==
  /\ Len(log) = MaxHistory + 2
  /\ Len(conversation_history) = MaxHistory
  /\ conversation_history[1].query_number = 3
  /\ conversation_history[MaxHistory].query_number = MaxHistory + 2

\* the turns recorded for session a, oldest first
RecordedFor(a) ==
  LET Mine(e) == e.owner = a
      mine == SelectSeq(log, Mine)
  IN  [k \in 1..Len(mine) |-> mine[k].turn]

\* the turns recorded for session a that the chatbot still holds
HistoryOf(a) ==
  LET Mine(t) == \E k \in 1..Len(log) : log[k].turn = t /\ log[k].owner = a
  IN  SelectSeq(conversation_history, Mine)

\* C6 (as claimed): conversation history is kept per session.  The turns held
\* for a session are the last 10 recorded for it, whatever was processed for
\* other sessions.
C6_HistoryPerSession ==
  \A a \in ClientIds : HistoryOf(a) = LastN(RecordedFor(a), MaxHistory)

\* the calls get_response made for session sid since its record was created
CallsSinceStart(sid) ==
  LET Mine(e) == /\ e.owner = sid
                 /\ e.turn.timestamp >= active_sessions[sid].start_time
  IN  SelectSeq(log, Mine)

\* the session records after a get_response call for session sid
\* holds: the record of sid is created if absent, counted and touched, and no
\* other record changes
TouchStep(sid) ==
  /\ DOMAIN active_sessions' = DOMAIN active_sessions \cup {sid}
  /\ active_sessions'[sid].query_count =
       (IF sid \in DOMAIN active_sessions
        THEN active_sessions[sid].query_count ELSE 0) + 1
  /\ active_sessions'[sid].last_activity = now
  /\ active_sessions'[sid].start_time =
       (IF sid \in DOMAIN active_sessions
        THEN active_sessions[sid].start_time ELSE now)
  /\ \A other \in DOMAIN active_sessions \ {sid} :
       active_sessions'[other] = active_sessions[other]

\* C7: after k sequential get_response calls bearing one session id with no
\* sweep removing it in between, the session map holds one record for that
\* id, its query count is k and its last-activity time is the time of the
\* k-th call; the first call creates the record and later calls only update
\* it.
C7_SessionCounted ==
  /\ [](\A sid \in DOMAIN active_sessions :
          LET calls == CallsSinceStart(sid)
          IN  /\ Len(calls) >= 1
              /\ active_sessions[sid].query_count = Len(calls)
              /\ active_sessions[sid].start_time = calls[1].turn.timestamp
              /\ active_sessions[sid].last_activity =
                   calls[Len(calls)].turn.timestamp)
  /\ [][request_count' = request_count + 1 =>
          TouchStep(returned'.result.session_id)]_vars

\* session s1 was called three times, the third time later than the first,
\* and the third call reported a session query count of 3
C7_Witness ==
  /\ ClientId("s1") \in DOMAIN active_sessions
  /\ active_sessions[ClientId("s1")].query_count = 3
  /\ active_sessions[ClientId("s1")].last_activity >
       active_sessions[ClientId("s1")].start_time
  /\ returned.op = "get_response"
  /\ returned.result.session_query_count = 3

\* C8: cleanup_sessions(m) removes exactly the session records idle for
\* strictly more than m minutes; every other record is left unchanged, and so
\* are the request counter and the chatbot's history and query counter.
C8_SweepRemovesIdle ==
  [][(returned'.op = "cleanup_sessions" /\ now' = now) =>
       /\ DOMAIN active_sessions' =
            {sid \in DOMAIN active_sessions :
               now - active_sessions[sid].last_activity <= returned'.limit}
       /\ \A sid \in DOMAIN active_sessions' :
            active_sessions'[sid] = active_sessions[sid]
       /\ request_count' = request_count
       /\ conversation_history' = conversation_history
       /\ query_count' = query_count
       /\ log' = log]_vars

\* a sweep has removed a session and kept one that was idle for exactly the
\* limit
C8_Witness ==
  /\ returned.op = "cleanup_sessions"
  /\ \E e \in {log[k] : k \in 1..Len(log)} :
       e.owner \notin DOMAIN active_sessions
  /\ \E sid \in DOMAIN active_sessions :
       now - active_sessions[sid].last_activity = returned.limit

\* the sum of f over the set S
RECURSIVE SumOver(_, _)
SumOver(f, S) ==
  IF S = {} THEN 0
  ELSE LET x == CHOOSE y \in S : TRUE IN f[x] + SumOver(f, S \ {x})

\* the requests taken by the threads so far
RequestsBegun == SumOver([t \in Threads |-> handlers[t].begun], Threads)

\* the requests among them that bore session id sid
RequestsBearing(sid) ==
  Cardinality({k \in 1..Len(log) : log[k].owner = sid})

\* C9 (as claimed): counter updates are atomic under concurrent callers.
\* Once N get_response calls of concurrent callers have all returned, the
\* request counter and the chatbot's query counter have each grown by N, and
\* each session's query count is the number of those calls that bore its id.
C9_CountersAtomic ==
  (\A t \in Threads : handlers[t].pc = "idle") =>
    /\ request_count = RequestsBegun
    /\ query_count = RequestsBegun
    /\ \A sid \in ClientIds :
         RequestsBearing(sid) > 0 =>
           /\ sid \in DOMAIN active_sessions
           /\ active_sessions[sid].query_count = RequestsBearing(sid)

\* C10 (as claimed): the sweep and the request handlers exclude each other on
\* the session map, so that no sweep aborts because the map changed under it
\* and no request fails because its record was deleted while it ran.
C10_SweepExcluded ==
  /\ sweeper.pc # "aborted"
  /\ \A t \in Threads : handlers[t].result.status # "error"

\* C11 (as claimed): a request's turn carries the turn number its own request
\* obtained when it incremented the counter, whatever other requests do in
\* the meantime, so no two turns in the history carry the same turn number.
C11_TurnCarriesOwnNumber ==
  /\ [][\A t \in Threads :
          (handlers[t].pc = "respond" /\ handlers'[t].pc = "finish") =>
            conversation_history'[Len(conversation_history')].query_number
              = handlers[t].read + 1]_vars
  /\ [](\A i, j \in 1..Len(conversation_history) :
          i # j =>
            conversation_history[i].query_number
              # conversation_history[j].query_number)

\* C12 (as claimed): the sweep keeps running whatever the request traffic, so
\* that every session idle for longer than the default threshold is
\* eventually removed: a session is never left idle beyond the threshold in
\* the map with the cleanup thread dead.
C12_SweepKeepsRunning ==
  \A sid \in DOMAIN active_sessions :
    now - active_sessions[sid].last_activity > DefaultMaxInactive =>
      sweeper.pc # "aborted"

\* the texts of a value as the end user reads them
TextsOf(v) ==
  IF v.type = "list" THEN {v.items[i] : i \in 1..Len(v.items)} ELSE {v.text}

\* C13 (as claimed): when the completion gateway fails, nothing handed to
\* the end user contains the gateway's raw error text: not the response
\* text, and no field of the body the chat API sends back for the request.
C13_RawErrorNotShown ==
  GatewayFailed =>
    /\ \A text \in TextsOf(returned.result.response) :
         ~Contains(returned.reply.error, text)
    /\ returned.op = "chat_api" =>
         \/ "error" \notin DOMAIN returned.result
         \/ ~Contains(returned.reply.error, returned.result.error)

\* _load_data could not read the knowledge base: of Documents, the one its
\* except clause installs
LoadFailed == organized_data = _create_fallback_data

\* C14 (as claimed): an orchestrator whose knowledge base was unusable at
\* construction does not exist as a serving object: it never processes a
\* query and never answers a request.
C14_UnusableStoreNeverServes ==
  LoadFailed =>
    /\ returned.op = "none"
    /\ query_count = 0
    /\ request_count = 0
    /\ conversation_history = <<>>

\* the greeting template in force
ConfiguredGreeting ==
  IF "greeting" \in DOMAIN organized_data.quick_responses
  THEN organized_data.quick_responses.greeting
  ELSE DefaultGreeting

\* the last call processed a query whose normalized text contains a greeting
\* phrase
GreetingAsked ==
  /\ Processed
  /\ \E k \in 1..Len(greeting_patterns) :
       Contains(greeting_patterns[k], Preprocessed[HandedQuery])

\* C15: whatever the knowledge store contains, a query whose normalized text
\* contains a greeting phrase is answered with kind quick, confidence 0.9 and
\* the configured greeting template, without a call of the completion
\* gateway.
C15_GreetingAlwaysQuick ==
  GreetingAsked =>
    /\ returned.result.response_type = "quick"
    /\ returned.result.confidence = 90
    /\ returned.result.response = ConfiguredGreeting
    /\ returned.calls.gateway = 0
    /\ returned.calls.context = 0

\* "hi, fees?" was answered from a store with no categories, no FAQ and no
\* quick-response table, after "Hello" had been
C15_Witness ==
  /\ GreetingAsked
  /\ organized_data = EmptyDocument
  /\ HandedQuery = QHiFees
  /\ returned.result.response_type = "quick"
  /\ \E k \in 1..Len(log) : log[k].turn.query = QHello

(***************************************************************************)
(* _preprocess_query on its own: a text is drawn, normalized, and the      *)
(* result is normalized again.                                             *)
(***************************************************************************)

\* the longest phrase drawn, in entries of SampleWords
MaxWords == 2

\* abbreviations, question patterns and plain words that texts are made of:
SampleWords ==
  {<<"g","o","r","a","k","h","p","u","r">>,
   <<"m","m","m","u","t">>,
   <<"i","t">>,
   <<"h","o","w"," ","m","u","c","h">>,
   <<"d","o"," ","y","o","u"," ","h","a","v","e">>,
   <<"f","e","e">>,
   <<"C","S","E","?">>,
   <<"H","E","L","L","O">>,
   <<"B",".","T","e","c","h">>,
   <<"h","o","s","t","e","l">>}

RECURSIVE PhrasesOf(_)
PhrasesOf(n) ==
  IF n = 1 THEN SampleWords
  ELSE {phrase \o <<" ">> \o word : phrase \in PhrasesOf(n - 1), word \in SampleWords}

\* "  HELLO WORLD  "
ExampleHelloWorld ==
  <<" "," ","H","E","L","L","O"," ","W","O","R","L","D"," "," ">>

\* "What is CSE?"
ExampleCse ==
  <<"W","h","a","t"," ","i","s"," ","C","S","E","?">>

\* "Tell me about B.Tech"
ExampleBtech ==
  <<"T","e","l","l"," ","m","e"," ","a","b","o","u","t"," ","B",".","T","e","c","h">>

\* the texts of test_query_preprocessing and the phrases of one to MaxWords
\* sample words
SampleTexts ==
  {ExampleHelloWorld, ExampleCse, ExampleBtech}
    \cup UNION {PhrasesOf(n) : n \in 1..MaxWords}

InitNormalize ==
  /\ Init
  /\ organized_data = EmptyDocument

\* a text is handed to the normalizer
DrawText(text) ==
  /\ returned.op = "none"
  /\ returned' = [Idle EXCEPT !.op = "draw", !.query = text]
  /\ UNCHANGED <<now, organized_data, quick_responses, faqs,
                 conversation_history, session_start_time, query_count,
                 active_sessions, request_count, log, handlers, sweeper>>

\* processed = self._preprocess_query(query)
PreprocessCall ==
  /\ returned.op = "draw"
  /\ returned' = [returned EXCEPT !.op = "_preprocess_query",
                                  !.result = PyStr(_preprocess_query(returned.query))]
  /\ UNCHANGED <<now, organized_data, quick_responses, faqs,
                 conversation_history, session_start_time, query_count,
                 active_sessions, request_count, log, handlers, sweeper>>

\* self._preprocess_query(processed): the result is normalized again
PreprocessAgain ==
  /\ returned.op = "_preprocess_query"
  /\ returned' = [returned EXCEPT !.op = "_preprocess_query again",
                                  !.query = returned.result.text,
                                  !.result = PyStr(_preprocess_query(returned.result.text))]
  /\ UNCHANGED <<now, organized_data, quick_responses, faqs,
                 conversation_history, session_start_time, query_count,
                 active_sessions, request_count, log, handlers, sweeper>>

NextNormalize ==
  \/ \E text \in SampleTexts : DrawText(text)
  \/ PreprocessCall
  \/ PreprocessAgain

SpecNormalize == InitNormalize /\ [][NextNormalize]_vars

\* C16 (as claimed): normalization is idempotent: normalizing a normalized
\* text gives that text back, abbreviations and question patterns included.
C16_NormalizeIdempotent ==
  returned.op = "_preprocess_query again" =>
    returned.result.text = returned.query

\* the category the scoring loop would pick for the last query ("" is none)
ScoredCategory == Matched[Preprocessed[HandedQuery]].best.best_match

\* C17: the greeting check runs before category scoring.  Whenever a
\* greeting phrase occurs in the normalized text, the matcher returns the
\* greeting template, whatever category keywords the text also contains, and
\* that template, never a category's, is what the query is answered with.
C17_GreetingBeforeCategories ==
  GreetingAsked =>
    /\ MatcherResult = ConfiguredGreeting
    /\ returned.calls.quick = 1
    /\ returned.result.response = MatcherResult
    /\ (ScoredCategory # "" /\ ScoredCategory \in DOMAIN quick_responses
          /\ quick_responses[ScoredCategory] # ConfiguredGreeting) =>
         returned.result.response # quick_responses[ScoredCategory]

\* "hi, fees?" scores for the fees category, whose template the store has,
\* and was answered with the greeting
C17_Witness ==
  /\ GreetingAsked
  /\ HandedQuery = QHiFees
  /\ ScoredCategory = "fees"
  /\ Truthy(Get(quick_responses, "fees", PyNone))
  /\ returned.result.response = ConfiguredGreeting

\* the last call assembled a context for the gateway
ContextAssembled == Processed /\ returned.calls.context = 1

\* C18 (as claimed): the context assembled for the AI path always starts
\* with the university block, for every query and every loaded store, one
\* whose university category is missing or empty included.
C18_AlwaysUniversityFirst ==
  ContextAssembled =>
    /\ returned.prompt.context # <<>>
    /\ returned.prompt.context[1].label = "University"

\* C18 (amended): when the store holds data for the university category, the
\* context starts with the university block, which carries that data, and no
\* later block is a university block; when it holds none, the context has no
\* university block.
C18_UniversityFirstWhenPresent ==
  ContextAssembled =>
    LET context == returned.prompt.context
        university_data == CategoryData(organized_data, "university")
    IN  IF university_data # <<>>
        THEN /\ context # <<>>
             /\ context[1].label = "University"
             /\ context[1].data = university_data
             /\ \A k \in 2..Len(context) : context[k].label # "University"
        ELSE \A k \in 1..Len(context) : context[k].label # "University"

\* a context of the university block and the blocks of two categories was
\* sent
C18_Witness ==
  /\ ContextAssembled
  /\ CategoryData(organized_data, "university") # <<>>
  /\ Len(returned.prompt.context) >= 3
  /\ returned.prompt.context[1].label = "University"
  /\ returned.prompt.context[2].label = "Courses"
  /\ returned.prompt.context[3].label = "Fees"

\* C19 (as claimed): for every processed query, on every path and with every
\* quick-response table the loader can produce, the envelope's response text
\* is a non-empty string.
C19_ResponseIsText ==
  Processed =>
    /\ returned.result.response.type = "str"
    /\ returned.result.response.text # <<>>

\* C20 (as claimed): _preprocess_query trims and lowercases the text and
\* replaces each course/degree abbreviation by its expansion, leaving every
\* other word and a final '?' as they were and leaving no trailing space:
\* "  HELLO WORLD  " gives "hello world", "What is CSE?" gives
\* "what is computer science engineering?" and "Tell me about B.Tech" gives
\* "tell me about bachelor of technology".
C20_PreprocessExamples ==
  returned.op = "_preprocess_query" =>
    LET processed == returned.result.text
    IN  /\ returned.query = ExampleHelloWorld =>
             processed = <<"h","e","l","l","o"," ","w","o","r","l","d">>
        /\ returned.query = ExampleCse =>
             processed = <<"w","h","a","t"," ","i","s"," ","c","o","m","p","u","t","e","r"," ","s","c","i","e","n","c","e"," ","e","n","g","i","n","e","e","r","i","n","g","?">>
        /\ returned.query = ExampleBtech =>
             processed = <<"t","e","l","l"," ","m","e"," ","a","b","o","u","t"," ","b","a","c","h","e","l","o","r"," ","o","f"," ","t","e","c","h","n","o","l","o","g","y">>
        /\ processed # <<>> => processed[Len(processed)] # " "
        /\ returned.query[Len(returned.query)] = "?" =>
             processed # <<>> /\ processed[Len(processed)] = "?"

(***************************************************************************)
(* DataOrganizer._create_search_index on its own.  The categories dict is  *)
(* a sequence of entries [name, keywords] in insertion order; the index    *)
(* maps a keyword to the list of category names appended for it.           *)
(***************************************************************************)

\* the longest keyword list of a category
MaxKeywords == 2

CategoryNames == {"fees", "facilities"}

KeywordPool == {"hostel", "cost"}

\* the keyword lists of up to MaxKeywords keywords, repetitions included
KeywordLists == UNION {[1..n -> KeywordPool] : n \in 0..MaxKeywords}

\* the categories dicts of up to two categories
CategoryTables ==
  {<<>>}
    \cup {<<[name |-> c, keywords |-> ks]>> : c \in CategoryNames, ks \in KeywordLists}
    \cup UNION {{<<[name |-> c, keywords |-> ks], [name |-> d, keywords |-> ls]>> :
                   d \in CategoryNames \ {c},
                   ks \in KeywordLists, ls \in KeywordLists} :
                 c \in CategoryNames}

\* an index whose entry for a keyword holds the last category only
AddKeywordReplacing(search_index, keyword, category_name) ==
  Put(search_index, keyword, <<category_name>>)

\* if keyword not in search_index: search_index[keyword] = []
\* search_index[keyword].append(category_name)
AddKeyword(search_index, keyword, category_name) ==
  IF keyword \notin DOMAIN search_index
  THEN Put(search_index, keyword, <<category_name>>)
  ELSE [search_index EXCEPT ![keyword] = Append(@, category_name)]

\* the loop over the keywords j.. of one category
RECURSIVE IndexKeywords(_, _, _, _)
IndexKeywords(search_index, keywords, j, category_name) ==
  IF j > Len(keywords) THEN search_index
  ELSE IndexKeywords(AddKeyword(search_index, keywords[j], category_name),
                     keywords, j + 1, category_name)

\* the loop over the categories k..
RECURSIVE IndexCategories(_, _, _)
IndexCategories(search_index, categories, k) ==
  IF k > Len(categories) THEN search_index
  ELSE IndexCategories(IndexKeywords(search_index, categories[k].keywords, 1,
                                     categories[k].name),
                       categories, k + 1)

_create_search_index(categories) ==
  IndexCategories([keyword \in {} |-> <<>>], categories, 1)

\* a DataOrganizer whose organized_data["categories"] is one of CategoryTables
InitIndex ==
  /\ Init
  /\ organized_data = EmptyDocument

OrganizeCategories(categories) ==
  /\ returned.op = "none"
  /\ returned' = [Idle EXCEPT !.op = "organize",
                              !.result = [categories |-> categories]]
  /\ UNCHANGED <<now, organized_data, quick_responses, faqs,
                 conversation_history, session_start_time, query_count,
                 active_sessions, request_count, log, handlers, sweeper>>

\* self._create_search_index()
CreateSearchIndexCall ==
  /\ returned.op = "organize"
  /\ returned' = [returned EXCEPT
                    !.op = "_create_search_index",
                    !.result = [categories |-> returned.result.categories,
                                search_index |->
                                  _create_search_index(returned.result.categories)]]
  /\ UNCHANGED <<now, organized_data, quick_responses, faqs,
                 conversation_history, session_start_time, query_count,
                 active_sessions, request_count, log, handlers, sweeper>>

NextIndex ==
  \/ \E categories \in CategoryTables : OrganizeCategories(categories)
  \/ CreateSearchIndexCall

SpecIndex == InitIndex /\ [][NextIndex]_vars

\* C21: after _create_search_index, for every category c and every keyword k
\* of c's keyword list the index has an entry for k that contains c, and the
\* index holds no keyword and no category that does not come from some
\* category's keyword list.
C21_IndexCoversKeywords ==
  returned.op = "_create_search_index" =>
    LET categories == returned.result.categories
        search_index == returned.result.search_index
    IN  /\ \A k \in 1..Len(categories) :
             \A j \in 1..Len(categories[k].keywords) :
               /\ categories[k].keywords[j] \in DOMAIN search_index
               /\ \E i \in 1..Len(search_index[categories[k].keywords[j]]) :
                    search_index[categories[k].keywords[j]][i]
                      = categories[k].name
        /\ \A keyword \in DOMAIN search_index :
             \A i \in 1..Len(search_index[keyword]) :
               \E k \in 1..Len(categories) :
                 /\ categories[k].name = search_index[keyword][i]
                 /\ \E j \in 1..Len(categories[k].keywords) :
                      categories[k].keywords[j] = keyword

\* two categories share the keyword "hostel" and the index lists both for it
C21_Witness ==
  /\ returned.op = "_create_search_index"
  /\ Len(returned.result.categories) = 2
  /\ "hostel" \in DOMAIN returned.result.search_index
  /\ returned.result.search_index["hostel"] = <<"fees", "facilities">>
  /\ "cost" \in DOMAIN returned.result.search_index

(***************************************************************************)
(* _check_quick_responses on its own: a normalized text is drawn and the   *)
(* matcher is run on it, with one of several quick-response tables loaded. *)
(***************************************************************************)

\* category keywords and a greeting that matcher texts are made of
MatcherWords ==
  {<<"c","o","u","r","s","e">>,
   <<"f","e","e">>,
   <<"h","o","s","t","e","l">>,
   <<"a","d","d","r","e","s","s">>,
   <<"o","f","f","i","c","e">>,
   <<"w","h","e","r","e">>,
   <<"h","e","l","l","o">>}

RECURSIVE MatcherPhrases(_)
MatcherPhrases(n) ==
  IF n = 1 THEN MatcherWords
  ELSE {phrase \o <<" ">> \o word : phrase \in MatcherPhrases(n - 1), word \in MatcherWords}

MatcherTexts == UNION {MatcherPhrases(n) : n \in 1..MaxWords}

\* a quick_responses table with templates for fees and location only
PartialQuickResponses ==
  [fees |-> GeneratedQuickResponses.fees,
   location |-> GeneratedQuickResponses.location]

\* _load_data has read an organized_data.json with one of three tables
InitMatcher ==
  /\ now = 0
  /\ organized_data \in
       {[EmptyDocument EXCEPT !.quick_responses = table] :
          table \in {GeneratedQuickResponses, PartialQuickResponses,
                     _create_basic_organized_data.quick_responses}}
  /\ quick_responses = organized_data.quick_responses
  /\ faqs = organized_data.faq
  /\ conversation_history = <<>>
  /\ session_start_time = now
  /\ query_count = 0
  /\ active_sessions = [sid \in {} |-> 0]
  /\ request_count = 0
  /\ returned = Idle
  /\ log = <<>>
  /\ handlers = [t \in Threads |-> HandlerIdle]
  /\ sweeper = SweeperIdle

\* what a call of the matcher leaves behind: the outcome of the greeting
\* test and of the scoring loop, and the value returned
MatcherReturns(matched) ==
  /\ returned' = [returned EXCEPT
                    !.op = "_check_quick_responses",
                    !.result = [matched |-> matched,
                                response |-> QuickResponseFor(matched)]]
  /\ UNCHANGED <<now, organized_data, quick_responses, faqs,
                 conversation_history, session_start_time, query_count,
                 active_sessions, request_count, log, handlers, sweeper>>

\* response = self._check_quick_responses(query)
CheckQuickResponsesCall ==
  /\ returned.op = "draw"
  /\ MatcherReturns([greeting |-> IsGreeting(returned.query),
                     best |-> BestMatch(returned.query)])

NextMatcher ==
  \/ \E text \in MatcherTexts : DrawText(text)
  \/ CheckQuickResponsesCall

SpecMatcher == InitMatcher /\ [][NextMatcher]_vars

\* how many patterns of category k occur in the text the matcher was given
Hits(k) ==
  Cardinality({j \in 1..Len(category_patterns[k].patterns) :
                 Contains(category_patterns[k].patterns[j], returned.query)})

\* C22: category scoring counts, for each category, how many of its keywords
\* occur as substrings of the text; the category chosen has the highest
\* count, and among categories with the same highest count the one that
\* comes first in the scan order courses, eligibility, fees, dates, contact,
\* facilities, placement, location wins.
C22_FirstHighestScoreWins ==
  returned.op = "_check_quick_responses" =>
    LET best == returned.result.matched.best
        scanned == 1..Len(category_patterns)
    IN  /\ [k \in scanned |-> category_patterns[k].category]
             = <<"courses", "eligibility", "fees", "dates", "contact",
                 "facilities", "placement", "location">>
        /\ IF \A k \in scanned : Hits(k) = 0
           THEN best.best_match = "" /\ best.best_score = 0
           ELSE \E k \in scanned :
                  /\ best.best_match = category_patterns[k].category
                  /\ best.best_score = Hits(k)
                  /\ \A other \in scanned : Hits(other) <= Hits(k)
                  /\ \A earlier \in 1..(k - 1) : Hits(earlier) < Hits(k)

\* "fee hostel" scores 1 for fees and 1 for facilities, and fees was chosen
C22_Witness ==
  /\ returned.op = "_check_quick_responses"
  /\ Hits(3) = 1
  /\ Hits(6) = 1
  /\ \A k \in 1..Len(category_patterns) : Hits(k) <= 1
  /\ returned.result.matched.best.best_match = "fees"

\* the first category of the scan order with the highest number of hits
TopCategory ==
  CHOOSE k \in 1..Len(category_patterns) :
    /\ \A other \in 1..Len(category_patterns) : Hits(other) <= Hits(k)
    /\ \A earlier \in 1..(k - 1) : Hits(earlier) < Hits(k)

\* C23: when no greeting phrase matches, the matcher returns a template only
\* if the best-scoring category has a score above 0 and a template registered
\* under its name, and then that template; otherwise it returns nothing, even
\* when a lower-scoring category has a template.
C23_OnlyBestCategoryAnswers ==
  (returned.op = "_check_quick_responses"
     /\ \A g \in 1..Len(greeting_patterns) :
          ~Contains(greeting_patterns[g], returned.query)) =>
    LET name == category_patterns[TopCategory].category
    IN  IF Hits(TopCategory) > 0 /\ name \in DOMAIN quick_responses
        THEN returned.result.response = quick_responses[name]
        ELSE returned.result.response = PyNone

\* "office address" scores 2 for contact, which has no template, and 1 for
\* location, which has one: the matcher returned nothing
C23_Witness ==
  /\ returned.op = "_check_quick_responses"
  /\ category_patterns[TopCategory].category = "contact"
  /\ Hits(TopCategory) = 2
  /\ Hits(8) = 1
  /\ "contact" \notin DOMAIN quick_responses
  /\ "location" \in DOMAIN quick_responses
  /\ returned.result.response = PyNone

(***************************************************************************)
(* Context assembly on its own: a normalized text is drawn and             *)
(* _identify_relevant_categories and _create_context_for_query are run on  *)
(* it, with the organiser's document loaded.                               *)
(***************************************************************************)

\* words of the FAQ questions, category keywords and a word of neither
ContextWords ==
  {<<"w","h","a","t">>,
   <<"i","s">>,
   <<"f","e","e">>,
   <<"h","o","s","t","e","l">>,
   <<"o","f","f","i","c","e">>,
   <<"h","e","l","l","o">>,
   <<"c","o","u","r","s","e">>}

RECURSIVE ContextPhrases(_)
ContextPhrases(n) ==
  IF n = 1 THEN ContextWords
  ELSE {phrase \o <<" ">> \o word : phrase \in ContextPhrases(n - 1), word \in ContextWords}

ContextTexts == UNION {ContextPhrases(n) : n \in 1..MaxWords}

\* relevant_categories = self._identify_relevant_categories(query)
IdentifyCategoriesCall ==
  /\ returned.op = "draw"
  /\ returned' = [returned EXCEPT
                    !.op = "_identify_relevant_categories",
                    !.result = [relevant_categories |->
                                  _identify_relevant_categories(returned.query)]]
  /\ UNCHANGED <<now, organized_data, quick_responses, faqs,
                 conversation_history, session_start_time, query_count,
                 active_sessions, request_count, log, handlers, sweeper>>

\* context = self._create_context_for_query(query)
CreateContextCall ==
  /\ returned.op = "draw"
  /\ returned' = [returned EXCEPT
                    !.op = "_create_context_for_query",
                    !.result = [context |->
                                  _create_context_for_query(organized_data, faqs,
                                                            returned.query)]]
  /\ UNCHANGED <<now, organized_data, quick_responses, faqs,
                 conversation_history, session_start_time, query_count,
                 active_sessions, request_count, log, handlers, sweeper>>

NextContext ==
  \/ \E text \in ContextTexts : DrawText(text)
  \/ IdentifyCategoriesCall
  \/ CreateContextCall

SpecContext == InitHistory /\ [][NextContext]_vars

\* the entries of category_keywords with a keyword that occurs in the text
KeywordMatches ==
  {k \in 1..Len(category_keywords) :
     \E j \in 1..Len(category_keywords[k].keywords) :
       Contains(category_keywords[k].keywords[j], returned.query)}

\* C24: _identify_relevant_categories never returns an empty list: it
\* returns, in the fixed iteration order, exactly the non-university
\* categories with a keyword that occurs in the query, and [courses,
\* eligibility, fees] if there is none.
C24_RelevantCategories ==
  returned.op = "_identify_relevant_categories" =>
    LET relevant == returned.result.relevant_categories
    IN  /\ relevant # <<>>
        /\ \A i \in 1..Len(relevant) : relevant[i] # "university"
        /\ IF KeywordMatches = {}
           THEN relevant = <<"courses", "eligibility", "fees">>
           ELSE /\ Len(relevant) = Cardinality(KeywordMatches)
                /\ \A i \in 1..Len(relevant) :
                     \E k \in KeywordMatches :
                       /\ relevant[i] = category_keywords[k].category
                       /\ Cardinality({m \in KeywordMatches : m < k}) = i - 1

\* "office hostel" gave [facilities, contact], and some other text the
\* default list
C24_Witness ==
  /\ returned.op = "_identify_relevant_categories"
  /\ returned.query = <<"o","f","f","i","c","e"," ","h","o","s","t","e","l">>
  /\ returned.result.relevant_categories = <<"facilities", "contact">>

\* the FAQs of the FAQ block of the context just assembled
FaqBlock ==
  LET context == returned.result.context
  IN  IF context # <<>> /\ context[Len(context)].label = "Relevant FAQs"
      THEN context[Len(context)].faqs
      ELSE <<>>

\* the number of words FAQ n of self.faqs shares with the text
Shared(n) ==
  Cardinality({w \in WordSet(returned.query) :
                 w \in WordSet(Lower(faqs[n].question))})

\* C25: the FAQ block of the assembled context holds at most 3 FAQs, each
\* sharing at least one whitespace-delimited word with the query, ordered by
\* descending word-overlap count with ties kept in the order of the FAQ
\* list; no FAQ left out has a strictly larger overlap than one included.
C25_TopThreeFaqs ==
  returned.op = "_create_context_for_query" =>
    \E at \in [1..Len(FaqBlock) -> 1..Len(faqs)] :
      /\ Len(FaqBlock) <= 3
      /\ \A i \in 1..Len(FaqBlock) :
           FaqBlock[i] = faqs[at[i]] /\ Shared(at[i]) > 0
      /\ \A i, j \in 1..Len(FaqBlock) :
           i < j =>
             \/ Shared(at[i]) > Shared(at[j])
             \/ Shared(at[i]) = Shared(at[j]) /\ at[i] < at[j]
      /\ \A n \in 1..Len(faqs) :
           (Shared(n) > 0 /\ \A i \in 1..Len(FaqBlock) : at[i] # n) =>
             /\ Len(FaqBlock) = 3
             /\ \A i \in 1..Len(FaqBlock) : Shared(n) <= Shared(at[i])

\* "is hostel": the hostel FAQ, fifth of the list, shares two words and
\* comes first, followed by the first two of the three FAQs that share one
C25_Witness ==
  /\ returned.op = "_create_context_for_query"
  /\ Len(FaqBlock) = 3
  /\ FaqBlock[1] = faqs[5]
  /\ FaqBlock[2] = faqs[1]
  /\ FaqBlock[3] = faqs[2]
  /\ Shared(5) = 2
  /\ Shared(6) = 1

(***************************************************************************)
(* AdmissionChatbot._load_data: what was found on disk when the chatbot    *)
(* was constructed, and the data it then serves queries from.              *)
(***************************************************************************)

\* organized_data.json: absent, present but not loadable (unreadable or not
\* JSON), or holding a document
OrganizedFiles ==
  {[state |-> "absent", document |-> EmptyDocument],
   [state |-> "unloadable", document |-> EmptyDocument],
   [state |-> "loadable", document |-> OrganizedDocument],
   [state |-> "loadable", document |-> EmptyDocument]}

\* structured_data.json: absent, not loadable, or holding the raw data that
\* _create_basic_organized_data is modelled for
StructuredFiles == {"absent", "unloadable", "loadable"}

\* self.organized_data after _load_data
_load_data(organized_file, structured_file) ==
  IF organized_file.state # "absent"
  THEN IF organized_file.state = "loadable"
       THEN organized_file.document
       ELSE _create_fallback_data
  ELSE IF structured_file = "loadable"
       THEN _create_basic_organized_data
       ELSE _create_fallback_data

\* before __init__ has run: the files on disk, no attribute set yet
InitLoad ==
  /\ now = 0
  /\ organized_data = EmptyDict
  /\ quick_responses = EmptyDict
  /\ faqs = <<>>
  /\ conversation_history = <<>>
  /\ session_start_time = now
  /\ query_count = 0
  /\ active_sessions = [sid \in {} |-> 0]
  /\ request_count = 0
  /\ returned \in {[Idle EXCEPT !.op = "files",
                                !.result = [organized_file |-> o,
                                            structured_file |-> s]] :
                     o \in OrganizedFiles, s \in StructuredFiles}
  /\ log = <<>>
  /\ handlers = [t \in Threads |-> HandlerIdle]
  /\ sweeper = SweeperIdle

\* self._load_data() in __init__
LoadDataCall ==
  /\ returned.op = "files"
  /\ organized_data' = _load_data(returned.result.organized_file,
                                  returned.result.structured_file)
  /\ quick_responses' = organized_data'.quick_responses
  /\ faqs' = organized_data'.faq
  /\ returned' = [returned EXCEPT !.op = "_load_data"]
  /\ UNCHANGED <<now, conversation_history, session_start_time, query_count,
                 active_sessions, request_count, log, handlers, sweeper>>

\* construction, then queries
NextLoad ==
  \/ LoadDataCall
  \/ \E q \in Queries, reply \in GatewayReplies :
       returned.op # "files" /\ Room /\ ProcessQueryCall(q, reply, "")

SpecLoad == InitLoad /\ [][NextLoad]_vars

\* C26 (as claimed): loading tries organized data, structured data and the
\* hardcoded fallback strictly in this order and the first source that loads
\* wins: if the organized document fails to load for any reason and the
\* structured document is loadable, the structured document is used; the
\* fallback set is used only when both earlier sources failed.
C26_FirstLoadableSourceWins ==
  returned.op = "_load_data" =>
    LET organized_file == returned.result.organized_file
        structured_file == returned.result.structured_file
    IN  organized_data =
          IF organized_file.state = "loadable" THEN organized_file.document
          ELSE IF structured_file = "loadable"
               THEN _create_basic_organized_data
               ELSE _create_fallback_data

\* the history of self.chat, the one chat session the chatbot holds for all
\* its callers: the exchanges send_message completed since the session was
\* started (at construction or reset), each with the session it was made
\* for.  send_message sends this history along with the new prompt.
ChatHistory ==
  LET Completed(e) ==
        \E reply \in GatewayReplies :
          reply.ok /\ e.turn.response = PyStr(Strip(reply.text))
  IN  SelectSeq(log, Completed)

\* C27 (as claimed): the running conversation handle with the completion
\* service is kept within one session: the history that accompanies a
\* gateway call made for a session holds no prompt or answer of a different
\* session.
C27_ChatHandlePerSession ==
  (Processed /\ returned.op \in {"get_response", "chat_api"}
     /\ returned.calls.gateway = 1 /\ log # <<>>) =>
    \A k \in 1..Len(ChatHistory) :
      ChatHistory[k].owner # NoneId =>
        ChatHistory[k].owner = log[Len(log)].owner

\* C28 (as claimed): every envelope handed back for a query, on every path
\* of process_query and get_response, the integration layer's own failure
\* path included, has the same shape: a response text, a kind in {quick,
\* ai_generated, fallback, error}, a confidence in [0,1], a list of source
\* tags and a timestamp.
C28_UniformEnvelope ==
  returned.op \in {"process_query", "get_response"} =>
    /\ {"response", "response_type", "confidence", "sources", "timestamp"}
         \subseteq DOMAIN returned.result
    /\ returned.result.response_type \in EnvelopeKinds
    /\ returned.result.confidence \in 0..100
    /\ returned.result.sources # <<>>

\* C29 (as claimed): two get_response calls that supply no session id are
\* never attached to the same session record: each such call creates a new
\* record, whose query count is 1 after the call, whatever the time between
\* the two calls.
C29_FreshSessionPerAnonymousCall ==
  [][(returned'.op \in {"get_response", "chat_api"}
        /\ returned'.session_id = NoneId
        /\ request_count' = request_count + 1) =>
       /\ returned'.result.session_id \notin DOMAIN active_sessions
       /\ returned'.result.session_id \in DOMAIN active_sessions'
       /\ returned'.result.session_query_count = 1
       /\ active_sessions'[returned'.result.session_id].query_count = 1]_vars

\* C30 (as claimed): the status reported for a chat request is 'success'
\* only when the query was answered: whenever the envelope's kind is error,
\* from process_query or from get_response's own failure path, the status in
\* what get_response returns and in what the chat API sends back is 'error'.
C30_ErrorKindHasErrorStatus ==
  (returned.op \in {"get_response", "chat_api"}
     /\ "response_type" \in DOMAIN returned.result
     /\ returned.result.response_type = "error") =>
    returned.result.status = "error"
====
